---- MODULE Spec2Model ----
(***************************************************************************)
(* Model of the OrderDesk MCP server: the mutation coordinator             *)
(* (OrderDeskClient.update_order_with_retry and the orders.update tool),   *)
(* the store service (StoreService), the token-bucket rate limiter         *)
(* (RateLimiter, TokenBucket), the HTTP retry layer of OrderDeskClient,    *)
(* the session context and the tools that read it, the order cache, the    *)
(* tenant service, magic links, the deletion of a tenant, the encryption   *)
(* of store credentials, and the delays slept before retries.              *)
(*                                                                         *)
(* Python dicts are functions whose DOMAIN is the set of keys present.     *)
(* Python None is the string "None".                                       *)
(***************************************************************************)
EXTENDS Integers, Sequences, FiniteSets, TLC

\* ------------------------------------------------------------------------
\* Bounds of the model
\* ------------------------------------------------------------------------

\* Largest max_retries argument passed directly to update_order_with_retry.
MaxRetriesArg == 3

\* Number of writes another actor makes to the upstream order during one run.
MaxOtherWrites == 2

\* Number of rows ever inserted into the stores table.
MaxRows == 2

\* Number of other database sessions that are inside register_store at once.
MaxSessions == 1

\* Seconds between two readings of time.time() that differ.
ClockStep == 15

\* Number of times the clock advances.
MaxTicks == 2

\* Number of checks made on a RateLimiter whose four bucket families are all
\* in use.
MaxChecks == 4

\* Largest max_retries an OrderDeskClient is constructed with.
MaxClientRetries == 3

\* Number of checks counted in a run of 1-token checks made on a tenant's bucket
\* at the very time it was created.
MaxBurstChecks == 121

\* Largest number of tenants created.
MaxTenants == 3

\* Largest number of magic links generated.
MaxLinks == 2

\* Largest number of audit, session and key-metadata rows inserted.
MaxOwned == 2

\* _backoff calls followed in one request: max_retries up to MaxBackoffRetries.
MaxBackoffRetries == 5

\* random.random() returns k / JitterSteps for k in 0 .. JitterSteps - 1.
JitterSteps == 4

\* ------------------------------------------------------------------------
\* Program constants
\* ------------------------------------------------------------------------

\* Default of the max_retries parameter of update_order_with_retry.
DefaultMaxRetries == 5

\* Default of the max_retries parameter of OrderDeskClient.__init__.
DefaultClientRetries == 3

\* ------------------------------------------------------------------------
\* Orders as dicts
\* ------------------------------------------------------------------------

\* Keys of the order objects of the mutation workflow.
Keys == {"email", "notes"}

\* Values the caller's change-set and the initial upstream object hold.
Values == {"v1"}

\* Values the other actor writes.
OtherValues == {"o1", "o2"}

None == "None"

\* All dicts with keys among K and values in V.
Dicts(K, V) == UNION {[D -> V] : D \in SUBSET K}

Orders == Dicts(Keys, Values \cup OtherValues)

ChangeSets == Dicts(Keys, Values \cup {None})

\* Keys and values of the objects merge_order_changes is applied to on its own.
MergeKeys == {"a", "b", "c"}

MergeValues == {"1", "2", "3", "5"}

\* The upstream order when a run starts.
InitialOrders == {[k \in Keys |-> "v1"], [k \in {"email"} |-> "v1"]}

EmptyDict == [k \in {} |-> None]

\* dict.pop(key, None)
Pop(d, key) == [k \in DOMAIN d \ {key} |-> d[k]]

\* dict[key] = value
Put(d, key, value) == [k \in DOMAIN d \cup {key} |-> IF k = key THEN value ELSE d[k]]

\* The body of the `for key, value in changes.items()` loop of
\* merge_order_changes, applied to the keys still to visit.
RECURSIVE MergeLoop(_, _, _)
MergeLoop(merged, chg, todo) ==
    IF todo = {} THEN merged
    ELSE LET key == CHOOSE k \in todo : TRUE
             value == chg[key]
             next == IF value = None THEN Pop(merged, key) ELSE Put(merged, key, value)
         IN MergeLoop(next, chg, todo \ {key})

\* A merge that treats an explicit null as a value to store.
MergeKeepNull(original, chg) ==
    [k \in DOMAIN original \cup DOMAIN chg |-> IF k \in DOMAIN chg THEN chg[k] ELSE original[k]]

\* OrderDeskClient.merge_order_changes
merge_order_changes(original, chg) == MergeLoop(original, chg, DOMAIN chg)

\* ------------------------------------------------------------------------
\* Errors
\* ------------------------------------------------------------------------

\* An exception: its class, its code, the status_code detail (0 when the
\* exception has none) and the retries_attempted detail (a set with at most
\* one element: the detail is present or absent).
Err(type, code, status, retries) ==
    [type |-> type, code |-> code, status |-> status, retries |-> retries]

NoError == Err("none", "", 0, {})

\* OrderDeskError(code=..., details={"status_code": ...}).
OrderDeskError(code, status) == Err("OrderDeskError", code, status, {})

\* ConflictError(message, retries): code CONFLICT_ERROR, details
\* {"retries_attempted": retries} if retries else {}.
ConflictError(retries) ==
    Err("ConflictError", "CONFLICT_ERROR", 0, IF retries # 0 THEN {retries} ELSE {})

\* HTTP error statuses the upstream may answer with.
ErrorStatuses == {401, 404, 409, 500}

\* Every status code mapped to API_ERROR.
ErrorCodeGeneric(status) == "API_ERROR"

\* error_code_map.get(status_code, "API_ERROR") of _handle_error_response.
ErrorCode(status) ==
    CASE status = 400 -> "BAD_REQUEST"
      [] status = 401 -> "UNAUTHORIZED"
      [] status = 403 -> "FORBIDDEN"
      [] status = 404 -> "NOT_FOUND"
      [] status = 429 -> "RATE_LIMITED"
      [] status = 500 -> "INTERNAL_ERROR"
      [] status = 502 -> "BAD_GATEWAY"
      [] status = 503 -> "SERVICE_UNAVAILABLE"
      [] status = 504 -> "GATEWAY_TIMEOUT"
      [] OTHER -> "API_ERROR"

\* Codes of the errors _request_with_retry raises without an HTTP status.
TransportCodes == {"TIMEOUT"}

\* Errors a fetch (GET through _request_with_retry) can raise.
FetchErrors ==
    {OrderDeskError(ErrorCode(s), s) : s \in ErrorStatuses}
        \cup {OrderDeskError(c, 0) : c \in TransportCodes}

\* Errors an upload can raise: those of the HTTP layer, and the
\* application-level conflict OrderDeskError(code="CONFLICT_ERROR") that the
\* tests' update_order double raises.
UploadErrors == FetchErrors \cup {OrderDeskError("CONFLICT_ERROR", 0)}

\* NotFoundError(resource_type, identifier)
NotFoundError == Err("NotFoundError", "NOT_FOUND", 0, {})

\* ValidationError(message, ...)
ValidationError == Err("ValidationError", "VALIDATION_ERROR", 0, {})

\* AuthError(message)
AuthError == Err("AuthError", "AUTH_ERROR", 0, {})

\* sqlalchemy.exc.IntegrityError, raised by db.commit() when a row breaks a
\* unique constraint of the table; it is not an MCPError and has no code.
IntegrityError == Err("IntegrityError", "", 0, {})

\* ------------------------------------------------------------------------
\* State
\* ------------------------------------------------------------------------

VARIABLES
    upstream,       \* the order object the upstream API holds
    changes,        \* argument `changes` of the run
    max_retries,    \* argument `max_retries` of the run
    attempt,        \* loop variable of `for attempt in range(max_retries)`
    pc,             \* position of the run
    current_order,  \* local: the object returned by the latest fetch
    merged_order,   \* local: the object passed to the latest upload
    updated_order,  \* the value the run returns
    raised,         \* the exception the run raised
    inflight,       \* upstream calls of the run that were issued and have not ended
    fetches,        \* number of fetch_full_order calls issued
    uploads,        \* number of update_order calls issued
    conflicts,      \* number of uploads that failed with a conflict error
    lastFailure,    \* the latest failed upstream call: its exception, its verb, and
                    \* fetches + uploads when it failed
    fetchedAt,      \* the latest fetch: its attempt, the upstream object then, and
                    \* whether that object differs from the one fetched before
    otherWrites,    \* number of writes the other actor made
    editedKeys,     \* keys the other actor changed since the run started
    preUpload,      \* the upstream object just before the successful upload replaced it
    viaTool,        \* TRUE when the run was started by update_order_mcp
    toolResult      \* what update_order_mcp gave its caller

mvars == <<upstream, changes, max_retries, attempt, pc, current_order, merged_order,
           updated_order, raised, inflight, fetches, uploads, conflicts, lastFailure,
           fetchedAt, otherWrites, editedKeys, preUpload, viaTool,
           toolResult>>

VARIABLES
    stores,         \* rows of the stores table
    rowCount,       \* number of rows ever inserted (orders rows by created_at)
    lastCall,       \* the latest StoreService call: method, tenant_id, arguments
    lastReturn,     \* what that call returned: rows, or a value, or an exception
    pending         \* Store objects of other database sessions whose
                    \* register_store passed both duplicate checks and has
                    \* not yet reached db.commit()

svars == <<stores, rowCount, lastCall, lastReturn, pending>>

VARIABLES
    settings,       \* the rate limits of the configuration, per minute
    tenant_buckets, \* RateLimiter._tenant_buckets: tenant_id -> TokenBucket
    ip_buckets,     \* RateLimiter._ip_buckets: <<ip_address, limit_type>> -> TokenBucket
    now,            \* the reading of time.time(), in seconds
    lastCheck,      \* the latest check: method, bucket, cost, result, exception
    ledger,         \* per tenant bucket, since it was created: the tokens
                    \* granted, and the tokens added by refills (in 1/60 token)
    burst,          \* per tenant bucket: the number of checks made on it if all
                    \* of them were 1-token checks made at the time it was
                    \* created, and -1 otherwise
    checks          \* number of checks made, counted up to MaxChecks

lvars == <<settings, tenant_buckets, ip_buckets, now, lastCheck, ledger, burst, checks>>

VARIABLES
    client_max_retries, \* self.max_retries of the OrderDeskClient
    hpc,            \* position of the call of _request_with_retry
    http_attempt,   \* its parameter `attempt`
    sent,           \* what became of each HTTP request it sent, in order
    afterBackoff,   \* what follows the _backoff it awaits: "retry" or "raise"
    http_raised,    \* the exception the call raised
    http_returned   \* TRUE when the call returned the parsed response

hvars == <<client_max_retries, hpc, http_attempt, sent, afterBackoff, http_raised,
           http_returned>>

VARIABLES
    session_context, \* the value of the ContextVar _session_context in the
                    \* context of each task: 0 for None, or the index of a
                    \* SessionContext in objects
    objects,        \* the SessionContext objects created so far
    frame,          \* per task: the master key it bears, the tool it runs and
                    \* what that tool read from the session so far
    lastTool        \* the latest tool call that ended, and how

xvars == <<session_context, objects, frame, lastTool>>

VARIABLES
    cache,          \* MemoryCacheBackend._cache: key -> value and expiry time
    lastGet         \* the latest orders.get that ended: the order it returned,
                    \* whether it came from the cache, and whether the call
                    \* began after an orders.update had changed the upstream

kvars == <<cache, lastGet>>

VARIABLES
    tenant_rows,    \* rows of the tenants table
    tenantCount,    \* number of tenants ever created
    lastAuth        \* the latest TenantService call: its arguments, the ids of
                    \* the tenants its key authenticated before it, and its result

tvars == <<tenant_rows, tenantCount, lastAuth>>

VARIABLES
    magic_links,    \* rows of the magic_links table
    linkCount,      \* number of magic links ever generated
    loaded,         \* per database session: the number of the MagicLink the
                    \* query of verify_magic_link returned, 0 when no
                    \* verification is under way in that session
    verified,       \* per magic link: how many verify_magic_link calls
                    \* returned success for it
    lastVerify      \* the latest verify_magic_link that returned, and what

gvars == <<magic_links, linkCount, loaded, verified, lastVerify>>

VARIABLES
    owned,          \* rows of the tables audit_log, sessions and
                    \* master_key_metadata: table, id and tenant_id
    ownedCount,     \* number of such rows ever inserted
    lastDelete      \* the latest deletion of a tenant: how it was made, the
                    \* tenant id, whether a tenant was deleted, and the
                    \* number of rows that went with it

dvars == <<owned, ownedCount, lastDelete>>

\* The credential columns of the stores table and the last decryption:
\*   credentials   store row id -> (api_key_ciphertext, api_key_tag,
\*                 api_key_nonce) of the row
\*   lastDecrypt   the last call of get_decrypted_credentials and its outcome
VARIABLES credentials, lastDecrypt

cvars == <<credentials, lastDecrypt>>

\* The arguments of asyncio.sleep, in milliseconds, in call order:
\*   delays           of the _backoff calls of one _request_with_retry
\*   backoff_delays   of the _backoff_fixed calls of one update_order_with_retry
VARIABLES delays, backoff_delays

bvars == <<delays, backoff_delays>>

vars == <<mvars, svars, lvars, hvars, xvars, kvars, tvars, gvars, dvars, cvars, bvars>>

\* The state outside the order update, outside the store service, outside
\* the rate limiter, and outside the HTTP request.
otherThanRun == <<svars, lvars, hvars, xvars, kvars, tvars, gvars, dvars, cvars, bvars>>

otherThanStore == <<mvars, lvars, hvars, xvars, kvars, tvars, gvars, dvars, cvars, bvars>>

otherThanLimiter == <<mvars, svars, hvars, xvars, kvars, tvars, gvars, dvars, cvars, bvars>>

otherThanHttp == <<mvars, svars, lvars, xvars, kvars, tvars, gvars, dvars, cvars, bvars>>

otherThanSession == <<mvars, svars, lvars, hvars, kvars, tvars, gvars, dvars, cvars, bvars>>

otherThanCache == <<mvars, svars, lvars, hvars, xvars, tvars, gvars, dvars, cvars, bvars>>

otherThanRunAndCache == <<svars, lvars, hvars, xvars, tvars, gvars, dvars, cvars, bvars>>

otherThanTenant == <<mvars, svars, lvars, hvars, xvars, kvars, gvars, dvars, cvars, bvars>>

otherThanMagicLink == <<mvars, svars, lvars, hvars, xvars, kvars, tvars, dvars, cvars, bvars>>

otherThanOwned == <<mvars, svars, lvars, hvars, xvars, kvars, tvars, gvars, cvars, bvars>>

otherThanCredentials == <<mvars, svars, lvars, hvars, xvars, kvars, tvars, gvars, dvars, bvars>>

\* Defaults of rate_limit_rpm, webui_rate_limit_login, webui_rate_limit_signup
\* and webui_rate_limit_api_console.
DefaultSettings ==
    [rate_limit_rpm |-> 120, webui_rate_limit_login |-> 5,
     webui_rate_limit_signup |-> 2, webui_rate_limit_api_console |-> 30]

\* A configuration with small limits, all different.
SmallSettings ==
    [rate_limit_rpm |-> 1, webui_rate_limit_login |-> 2,
     webui_rate_limit_signup |-> 1, webui_rate_limit_api_console |-> 3]

\* The configuration with rate_limit_rpm = r and the other limits as in the
\* defaults.
TenantSettings(r) == [DefaultSettings EXCEPT !.rate_limit_rpm = r]

\* No exception, and RateLimitError(message, retry_after): code
\* RATE_LIMIT_EXCEEDED, details {"retry_after_seconds": retry_after} if
\* retry_after else {} (a set with at most one element).
NoRateLimitError == [type |-> "none", code |-> "", retry_after_seconds |-> {}]

\* A RateLimitError whose details are always empty.
RateLimitErrorNoHint(retry_after) ==
    [type |-> "RateLimitError", code |-> "RATE_LIMIT_EXCEEDED",
     retry_after_seconds |-> {}]

RateLimitError(retry_after) ==
    [type |-> "RateLimitError", code |-> "RATE_LIMIT_EXCEEDED",
     retry_after_seconds |-> IF retry_after # 0 THEN {retry_after} ELSE {}]

NoCheck ==
    [fn |-> "none", key |-> "", kind |-> "", cost |-> 0, allowed |-> FALSE,
     retry_after |-> 0, error |-> NoRateLimitError]

\* RateLimiter.__init__ with the configuration s: no bucket exists.
LimiterInit(s) ==
    /\ settings = s
    /\ tenant_buckets = EmptyDict
    /\ ip_buckets = EmptyDict
    /\ now = 0
    /\ lastCheck = NoCheck
    /\ ledger = EmptyDict
    /\ burst = EmptyDict
    /\ checks = 0

Terminal == {"done", "error"}

NoFailure == [error |-> NoError, call |-> "none", calls |-> 0]

NoResult == [status |-> "none", error |-> NoError]

\* What update_order_mcp finds before it calls update_order_with_retry.
ToolPreconditions ==
    {"unauthenticated", "no_store", "store_not_found", "decrypt_failed", "ok"}

\* An OrderDeskClient(store_id, api_key, max_retries = n) that made no request.
HttpInit(n) ==
    /\ client_max_retries = n
    /\ hpc = "idle"
    /\ http_attempt = 0
    /\ sent = <<>>
    /\ afterBackoff = "none"
    /\ http_raised = NoError
    /\ http_returned = FALSE

\* Tasks that handle requests; each runs in a context of its own, copied from
\* the context of the server, in which _session_context was never set.
Tasks == {"r1", "r2"}

\* A task that authenticated nobody and runs no tool.
IdleFrame ==
    [pc |-> "idle", principal |-> None, tool |-> "", identifier |-> None,
     tenant_id |-> None, tenant_key |-> None, active_store_id |-> None]

NoTool ==
    [task |-> "", tool |-> "", identifier |-> None, authenticated |-> FALSE,
     error |-> NoError, store |-> <<>>, resolved |-> <<>>, read_store |-> FALSE,
     upstream |-> FALSE]

\* _session_context = ContextVar("session_context", default=None)
SessionInit ==
    /\ session_context = [k \in Tasks |-> 0]
    /\ objects = <<>>
    /\ frame = [r \in Tasks |-> IdleFrame]
    /\ lastTool = NoTool

\* The methods of class CacheManager.
CacheManagerMethods == {"get", "set", "invalidate_store", "invalidate_tenant"}

\* The tenant, the store and the order of the cached calls.
CacheTenant == "tA"

CacheStore == "shop"

CacheOrder == "orders/X"

\* CacheManager.ttls["orders"], in seconds.
OrdersTtl == 15

\* Cache keys are strings of segments joined by ":"; a key is the sequence
\* of its segments. CacheManager._generate_key with _hash_query(None):
\* f"{tenant_id}:{store_id}:{endpoint}:default".
GenerateKey(tenant_id, store_id, endpoint) == <<tenant_id, store_id, endpoint, "default">>

\* f"{tenant_id}:{store_id}:orders/{order_id}", the key update_order_mcp
\* passes to delete.
DeleteKey(tenant_id, store_id, endpoint) == <<tenant_id, store_id, endpoint>>

\* f"{tenant_id}:{store_id}:orders", the pattern update_order_mcp passes to
\* invalidate_pattern.
OrdersPattern(tenant_id, store_id) == <<tenant_id, store_id, "orders">>

\* a is a prefix of b, for the segments in use; the empty segment, which
\* follows the last ":" of a pattern that ends with ":", is a prefix of all.
IsPrefix(a, b) == a = "" \/ a = b \/ (a = "orders" /\ b = CacheOrder)

\* a is a suffix of b, for the segments in use.
IsSuffix(a, b) == a = b \/ (a = "tA" /\ b = "x-tA")

\* `pattern in key`: the pattern, of two segments or more, is a substring of
\* the key. A match may start in any segment of the key: the first segment
\* of the pattern ends a segment, the last begins one, and those in between
\* are equal.
Contains(key, pattern) ==
    \E o \in 0..(Len(key) - Len(pattern)) :
        /\ IsSuffix(pattern[1], key[o + 1])
        /\ \A i \in 2..(Len(pattern) - 1) : key[o + i] = pattern[i]
        /\ IsPrefix(pattern[Len(pattern)], key[o + Len(pattern)])

\* The dict d without the keys of K.
Without(d, K) == [k \in DOMAIN d \ K |-> d[k]]

\* MemoryCacheBackend.delete(key): self._cache.pop(key, None)
BackendDelete(c, key) == Without(c, {key})

\* MemoryCacheBackend.invalidate_pattern(pattern)
BackendInvalidatePattern(c, pattern) ==
    Without(c, {key \in DOMAIN c : Contains(key, pattern)})

\* MemoryCacheBackend.set(key, value, ttl) at time t
BackendSet(c, key, value, ttl, t) ==
    [k \in DOMAIN c \cup {key} |->
        IF k = key THEN [value |-> value, expires |-> t + ttl] ELSE c[k]]

\* MemoryCacheBackend.get(key) at time t: the value of an entry that has not
\* expired, as a sequence of at most one element.
BackendGet(c, key, t) ==
    IF key \in DOMAIN c /\ c[key].expires > t THEN <<c[key].value>> ELSE <<>>

\* The cache after that get: an expired entry is deleted.
BackendAfterGet(c, key, t) ==
    IF key \in DOMAIN c /\ ~(c[key].expires > t) THEN Without(c, {key}) ELSE c

\* What evaluating cache_manager.<method> raises.
AttributeError == Err("AttributeError", "", 0, {})

CacheManagerAttribute(method) ==
    IF method \in CacheManagerMethods THEN NoError ELSE AttributeError

NoGet ==
    [status |-> "none", order |-> EmptyDict, cached |-> FALSE,
     after_update |-> FALSE, error |-> NoError]

\* An empty cache; no orders.get was called.
CacheInit ==
    /\ cache = EmptyDict
    /\ lastGet = NoGet

NoAuth ==
    [op |-> "none", master_key |-> "", auto_provision |-> FALSE, existing |-> {},
     returned |-> None, created |-> FALSE, error |-> NoError]

\* An empty tenants table; no TenantService call was made.
TenantInit ==
    /\ tenant_rows = {}
    /\ tenantCount = 0
    /\ lastAuth = NoAuth

\* Database sessions, each of a request that runs verify_magic_link.
DbSessions == {"s1", "s2"}

NoVerify == [session |-> "", token |-> "", purpose |-> "", success |-> FALSE, link |-> 0]

\* An empty magic_links table; no verification is under way.
MagicLinkInit ==
    /\ magic_links = {}
    /\ linkCount = 0
    /\ loaded = [s \in DbSessions |-> 0]
    /\ verified = <<>>
    /\ lastVerify = NoVerify

NoDelete == [op |-> "none", user_id |-> "", returned |-> FALSE, removed |-> 0]

\* No row references a tenant; no tenant was deleted.
OwnedInit ==
    /\ owned = {}
    /\ ownedCount = 0
    /\ lastDelete = NoDelete

\* No call of get_decrypted_credentials was made.
NoDecrypt ==
    [row |-> 0, tenant_id |-> "", tenant_key |-> "", store_id |-> "",
     api_key |-> "", raised |-> FALSE]

\* No store row, so no credential columns.
CredentialInit ==
    /\ credentials = <<>>
    /\ lastDecrypt = NoDecrypt

\* Nothing slept yet.
SleepInit ==
    /\ delays = <<>>
    /\ backoff_delays = <<>>

\* The state of the services a specification does not exercise.
ServicesInit ==
    /\ HttpInit(DefaultClientRetries)
    /\ SessionInit
    /\ CacheInit
    /\ TenantInit
    /\ MagicLinkInit
    /\ OwnedInit
    /\ CredentialInit
    /\ SleepInit

\* No StoreService call was made and the stores table is empty.
StoreInit ==
    /\ stores = {}
    /\ rowCount = 0
    /\ lastCall = [op |-> "none", tenant_id |-> "", arg |-> "", store_name |-> ""]
    /\ lastReturn = [rows |-> <<>>, value |-> "none", error |-> NoError, invalid |-> ""]
    /\ pending = {}

\* Before a call of update_order_with_retry or update_order_mcp, with the
\* upstream holding the order `order`.
RunInit(order) ==
    /\ upstream = order
    /\ changes = EmptyDict
    /\ max_retries = 0
    /\ attempt = 0
    /\ pc = "idle"
    /\ current_order = EmptyDict
    /\ merged_order = EmptyDict
    /\ updated_order = EmptyDict
    /\ raised = NoError
    /\ inflight = {}
    /\ fetches = 0
    /\ uploads = 0
    /\ conflicts = 0
    /\ lastFailure = NoFailure
    /\ fetchedAt = [attempt |-> -1, order |-> EmptyDict, differs |-> FALSE]
    /\ otherWrites = 0
    /\ editedKeys = {}
    /\ preUpload = EmptyDict
    /\ viaTool = FALSE
    /\ toolResult = NoResult

Init ==
    /\ StoreInit
    /\ ServicesInit
    /\ LimiterInit(DefaultSettings)
    /\ \E order \in InitialOrders : RunInit(order)

\* ------------------------------------------------------------------------
\* update_order_with_retry
\* ------------------------------------------------------------------------

\* A direct call update_order_with_retry(order_id, c, max_retries = n).
CallDirect ==
    \E c \in ChangeSets, n \in 0..MaxRetriesArg :
        /\ pc = "idle"
        /\ toolResult = NoResult
        /\ changes' = c
        /\ max_retries' = n
        /\ attempt' = 0
        /\ pc' = "loop"
        /\ UNCHANGED <<upstream, current_order, merged_order, updated_order, raised,
                       inflight, fetches, uploads, conflicts, lastFailure, fetchedAt, otherWrites, editedKeys, preUpload,
                       viaTool, toolResult>>
        /\ UNCHANGED otherThanRun

\* A conflict test that takes every error for a conflict.
IsConflictAny(e) == TRUE

\* `e.code == "CONFLICT_ERROR"`
IsConflict(e) == e.code = "CONFLICT_ERROR"

\* A bound that gives up one attempt early.
HasAttemptsLeftEarly(a, n) == a < n - 2

\* `attempt < max_retries - 1`
HasAttemptsLeft(a, n) == a < n - 1

\* The `except OrderDeskError as e` clause of the loop body.
HandleOrderDeskError(e) ==
    IF IsConflict(e)
    THEN IF HasAttemptsLeft(attempt, max_retries)
         THEN /\ pc' = "backoff"           \* _backoff_fixed, then continue
              /\ raised' = raised
         ELSE /\ pc' = "error"             \* break, then raise ConflictError
              /\ raised' = ConflictError(max_retries)
    ELSE /\ pc' = "error"                  \* raise
         /\ raised' = e

\* Loop head with an iteration left: the fetch of this attempt is issued.
IssueFetch ==
    /\ pc = "loop"
    /\ attempt < max_retries
    /\ pc' = "fetching"
    /\ fetches' = fetches + 1
    /\ inflight' = inflight \cup {<<"GET", attempt>>}
    /\ UNCHANGED <<upstream, changes, max_retries, attempt, current_order, merged_order,
                   updated_order, raised, uploads, conflicts, lastFailure, fetchedAt, otherWrites, editedKeys, preUpload,
                   viaTool, toolResult>>
    /\ UNCHANGED otherThanRun

\* range(max_retries) is exhausted at the loop head: raise ConflictError.
LoopExhausted ==
    /\ pc = "loop"
    /\ ~(attempt < max_retries)
    /\ pc' = "error"
    /\ raised' = ConflictError(max_retries)
    /\ UNCHANGED <<upstream, changes, max_retries, attempt, current_order, merged_order,
                   updated_order, inflight, fetches, uploads, conflicts, lastFailure, fetchedAt, otherWrites, editedKeys, preUpload,
                   viaTool, toolResult>>
    /\ UNCHANGED otherThanRun

\* A fetch that returns the object of the previous attempt when there is one.
FetchReturnsStale ==
    /\ pc = "fetching"
    /\ current_order' = IF attempt > 0 THEN current_order ELSE upstream
    /\ merged_order' = merge_order_changes(current_order', changes)
    /\ fetchedAt' = [attempt |-> attempt, order |-> upstream,
                     differs |-> attempt > 0 /\ upstream # current_order]
    /\ otherWrites' = otherWrites
    /\ uploads' = uploads + 1
    /\ inflight' = (inflight \ {<<"GET", attempt>>}) \cup {<<"PUT", attempt>>}
    /\ pc' = "uploading"
    /\ UNCHANGED <<upstream, changes, max_retries, attempt, updated_order, raised,
                   fetches, conflicts, lastFailure, editedKeys,
                   preUpload, viaTool, toolResult>>
    /\ UNCHANGED otherThanRun

\* A fetch that leaves its call open while the upload is issued.
FetchReturnsPipelined ==
    /\ pc = "fetching"
    /\ current_order' = upstream
    /\ merged_order' = merge_order_changes(current_order', changes)
    /\ fetchedAt' = [attempt |-> attempt, order |-> upstream,
                     differs |-> attempt > 0 /\ upstream # current_order]
    /\ otherWrites' = otherWrites
    /\ uploads' = uploads + 1
    /\ inflight' = inflight \cup {<<"PUT", attempt>>}
    /\ pc' = "uploading"
    /\ UNCHANGED <<upstream, changes, max_retries, attempt, updated_order, raised,
                   fetches, conflicts, lastFailure, editedKeys,
                   preUpload, viaTool, toolResult>>
    /\ UNCHANGED otherThanRun

\* fetch_full_order returns the upstream's current object; the changes are
\* merged into it and the upload of the merged object is issued.
FetchReturns ==
    /\ pc = "fetching"
    /\ current_order' = upstream
    /\ merged_order' = merge_order_changes(current_order', changes)
    /\ fetchedAt' = [attempt |-> attempt, order |-> upstream,
                     differs |-> attempt > 0 /\ upstream # current_order]
    /\ otherWrites' = otherWrites
    /\ uploads' = uploads + 1
    /\ inflight' = (inflight \ {<<"GET", attempt>>}) \cup {<<"PUT", attempt>>}
    /\ pc' = "uploading"
    /\ UNCHANGED <<upstream, changes, max_retries, attempt, updated_order, raised,
                   fetches, conflicts, lastFailure, editedKeys,
                   preUpload, viaTool, toolResult>>
    /\ UNCHANGED otherThanRun

\* fetch_full_order raises.
FetchFails ==
    \E e \in FetchErrors :
        /\ pc = "fetching"
        /\ inflight' = inflight \ {<<"GET", attempt>>}
        /\ lastFailure' = [error |-> e, call |-> "GET", calls |-> fetches + uploads]
        /\ HandleOrderDeskError(e)
        /\ UNCHANGED <<upstream, changes, max_retries, attempt, current_order,
                       merged_order, updated_order, fetches, uploads, conflicts,
                       fetchedAt, otherWrites, editedKeys, preUpload, viaTool,
                       toolResult>>
        /\ UNCHANGED otherThanRun

\* update_order returns: the upstream replaced its object by the uploaded one.
UploadReturns ==
    /\ pc = "uploading"
    /\ preUpload' = upstream
    /\ upstream' = merged_order
    /\ updated_order' = merged_order
    /\ inflight' = inflight \ {<<"PUT", attempt>>}
    /\ pc' = "done"
    /\ UNCHANGED <<changes, max_retries, attempt, current_order, merged_order, raised,
                   fetches, uploads, conflicts, lastFailure, fetchedAt,
                   otherWrites, editedKeys, viaTool, toolResult>>
    /\ UNCHANGED otherThanRun

\* update_order raises.
UploadFails ==
    \E e \in UploadErrors :
        /\ pc = "uploading"
        /\ inflight' = inflight \ {<<"PUT", attempt>>}
        /\ lastFailure' = [error |-> e, call |-> "PUT", calls |-> fetches + uploads]
        /\ conflicts' = IF e.code = "CONFLICT_ERROR" THEN conflicts + 1 ELSE conflicts
        /\ HandleOrderDeskError(e)
        /\ UNCHANGED <<upstream, changes, max_retries, attempt, current_order,
                       merged_order, updated_order, fetches, uploads, fetchedAt,
                       otherWrites, editedKeys, preUpload, viaTool, toolResult>>
        /\ UNCHANGED otherThanRun

\* A backoff whose sleep never ends.
BackoffNeverEnds ==
    /\ pc = "backoff"
    /\ UNCHANGED vars

\* _backoff_fixed returns and `continue` starts the next iteration.
BackoffDone ==
    /\ pc = "backoff"
    /\ attempt' = attempt + 1
    /\ pc' = "loop"
    /\ UNCHANGED <<upstream, changes, max_retries, current_order, merged_order,
                   updated_order, raised, inflight, fetches, uploads, conflicts,
                   lastFailure, fetchedAt, otherWrites, editedKeys,
                   preUpload, viaTool, toolResult>>
    /\ UNCHANGED otherThanRun

\* Another actor replaces the upstream order by one that differs in key k.
OtherActorWrite ==
    \E k \in Keys, v \in OtherValues \cup {None} :
        /\ pc \notin {"idle"} \cup Terminal
        /\ otherWrites < MaxOtherWrites
        /\ otherWrites' = otherWrites + 1
        /\ upstream' = IF v = None THEN Pop(upstream, k) ELSE Put(upstream, k, v)
        /\ upstream' # upstream
        /\ editedKeys' = editedKeys \cup {k}
        /\ UNCHANGED <<changes, max_retries, attempt, pc, current_order, merged_order,
                       updated_order, raised, inflight, fetches, uploads, conflicts,
                       lastFailure, fetchedAt, preUpload, viaTool, toolResult>>
        /\ UNCHANGED otherThanRun

\* ------------------------------------------------------------------------
\* update_order_mcp (tool orders.update)
\* ------------------------------------------------------------------------

\* The except clauses of update_order_mcp.
ToolOutcome(e) ==
    IF e.type \in {"NotFoundError", "ValidationError"} THEN e
    ELSE IF e.type = "OrderDeskError"
         THEN IF e.code = "NOT_FOUND" THEN NotFoundError ELSE ValidationError
         ELSE ValidationError

\* update_order_mcp up to its call of update_order_with_retry: require_auth,
\* store resolution and credential decryption.
CallTool ==
    \E c \in ChangeSets, pre \in ToolPreconditions :
        /\ pc = "idle"
        /\ toolResult = NoResult
        /\ viaTool' = TRUE
        /\ changes' = c
        /\ attempt' = 0
        /\ IF pre = "ok"
           THEN /\ max_retries' = DefaultMaxRetries
                /\ pc' = "loop"
                /\ toolResult' = toolResult
           ELSE /\ max_retries' = max_retries
                /\ pc' = pc
                /\ toolResult' =
                     [status |-> "raised",
                      error |-> CASE pre = "unauthenticated" -> AuthError
                                  [] pre = "no_store" -> ToolOutcome(ValidationError)
                                  [] pre = "store_not_found" -> ToolOutcome(NotFoundError)
                                  [] pre = "decrypt_failed" ->
                                       ToolOutcome(Err("Exception", "", 0, {}))]
        /\ UNCHANGED <<upstream, current_order, merged_order, updated_order, raised,
                       inflight, fetches, uploads, conflicts, lastFailure, fetchedAt,
                       otherWrites, editedKeys, preUpload>>
        /\ UNCHANGED otherThanRun

\* What update_order_mcp's cache invalidation raises:
\* await cache_manager.delete(key), then
\* await cache_manager.invalidate_pattern(pattern).
InvalidationError ==
    IF CacheManagerAttribute("delete") # NoError
    THEN CacheManagerAttribute("delete")
    ELSE CacheManagerAttribute("invalidate_pattern")

\* update_order_mcp after update_order_with_retry ended. When it returned,
\* the cache is invalidated and the success dict is returned; an exception
\* of either goes through the except clauses.
ToolReturn ==
    /\ viaTool
    /\ pc \in Terminal
    /\ toolResult = NoResult
    /\ toolResult' = IF pc = "done"
                     THEN IF InvalidationError = NoError
                          THEN [status |-> "success", error |-> NoError]
                          ELSE [status |-> "raised",
                                error |-> ToolOutcome(InvalidationError)]
                     ELSE [status |-> "raised", error |-> ToolOutcome(raised)]
    /\ cache' = IF pc = "done" /\ InvalidationError = NoError
                THEN BackendInvalidatePattern(
                         BackendDelete(cache, DeleteKey(CacheTenant, CacheStore, CacheOrder)),
                         OrdersPattern(CacheTenant, CacheStore))
                ELSE cache
    /\ UNCHANGED lastGet
    /\ UNCHANGED <<upstream, changes, max_retries, attempt, pc, current_order,
                   merged_order, updated_order, raised, inflight, fetches, uploads,
                   conflicts, lastFailure, fetchedAt, otherWrites, editedKeys,
                   preUpload, viaTool>>
    /\ UNCHANGED otherThanRunAndCache

\* ------------------------------------------------------------------------
\* Specification of the mutation workflow
\* ------------------------------------------------------------------------

\* The steps of one run of update_order_with_retry.
RunStep ==
    \/ IssueFetch
    \/ LoopExhausted
    \/ FetchReturns
    \/ FetchFails
    \/ UploadReturns
    \/ UploadFails
    \/ BackoffDone

\* update_order_with_retry called directly, with another actor writing to the
\* same upstream order.
Next ==
    \/ CallDirect
    \/ IssueFetch
    \/ LoopExhausted
    \/ FetchReturns
    \/ FetchFails
    \/ UploadReturns
    \/ UploadFails
    \/ BackoffDone
    \/ OtherActorWrite

Spec == Init /\ [][Next]_vars

\* Every awaited upstream call returns or fails and every sleep ends, so a
\* run that can take a step eventually takes one.
FairSpec == Spec /\ WF_vars(RunStep)

\* The orders.update tool: update_order_mcp around update_order_with_retry.
\* The tool passes no max_retries, so the loop runs with the default and its
\* range is never exhausted at the loop head.
ToolNext ==
    \/ CallTool
    \/ IssueFetch
    \/ FetchReturns
    \/ FetchFails
    \/ UploadReturns
    \/ UploadFails
    \/ BackoffDone
    \/ ToolReturn

ToolSpec == Init /\ [][ToolNext]_vars

\* ------------------------------------------------------------------------
\* Properties of the mutation workflow
\* ------------------------------------------------------------------------

\* TRUE when objects x and y agree on key k: both lack it or both hold the
\* same value.
SameAt(x, y, k) ==
    /\ (k \in DOMAIN x) = (k \in DOMAIN y)
    /\ k \in DOMAIN x => x[k] = y[k]

\* C1: a run that ends in success never discards the other actor's edits:
\* every key the other actor changed before the successful upload, and that is
\* not a key of the change-set, has in the stored object the value it had
\* upstream just before that upload.
C1_NoLostEdit ==
    pc = "done" =>
        \A k \in editedKeys \ DOMAIN changes : SameAt(upstream, preUpload, k)

\* C2: with max_retries = N >= 1 the run never issues more than N fetches or
\* N uploads, and when every fetch succeeded and every upload failed with a
\* conflict it ends after exactly N fetches and N uploads with a
\* ConflictError whose retries_attempted detail is N.
C2_ConflictRetryBound ==
    max_retries >= 1 =>
        /\ fetches <= max_retries
        /\ uploads <= max_retries
        /\ (pc \in Terminal /\ conflicts = uploads /\ lastFailure.call # "GET") =>
              /\ fetches = max_retries
              /\ uploads = max_retries
              /\ raised = ConflictError(max_retries)
              /\ raised.retries = {max_retries}

C2_Witness ==
    /\ pc = "error"
    /\ max_retries = 3
    /\ conflicts = 3
    /\ uploads = 3
    /\ fetches = 3
    /\ raised.type = "ConflictError"

\* C3: once a fetch or an upload failed with an error whose code is not the
\* conflict code, the run has ended with that same error, no call is in
\* flight and no fetch or upload was issued after the failure.
C3_OtherErrorsAbort ==
    (lastFailure.call # "none" /\ lastFailure.error.code # "CONFLICT_ERROR") =>
        /\ pc = "error"
        /\ raised = lastFailure.error
        /\ inflight = {}
        /\ fetches + uploads = lastFailure.calls

C3_Witness ==
    /\ pc = "error"
    /\ attempt = 1
    /\ max_retries = 3
    /\ lastFailure.call = "PUT"
    /\ lastFailure.error.code = "NOT_FOUND"
    /\ raised = OrderDeskError("NOT_FOUND", 404)

\* C4: an upload answered with HTTP 409 while attempts remain does not end
\* the run with an error: the run goes on to fetch and upload again.
C4_Http409Retried ==
    (/\ lastFailure.call = "PUT"
     /\ lastFailure.error.status = 409
     /\ lastFailure.calls = fetches + uploads
     /\ attempt < max_retries - 1) => pc # "error"

\* C5: at most one upstream call of the run is in flight, and it is the call
\* the run is waiting for: the fetch of an attempt is never in flight
\* together with an upload.
C5_Sequential ==
    /\ Cardinality(inflight) <= 1
    /\ pc = "fetching" => inflight = {<<"GET", attempt>>}
    /\ pc = "uploading" => inflight = {<<"PUT", attempt>>}
    /\ pc \notin {"fetching", "uploading"} => inflight = {}

C5_Witness ==
    /\ pc = "fetching"
    /\ attempt = 1
    /\ conflicts = 1
    /\ inflight = {<<"GET", 1>>}

\* C6: the upload of a retry carries, for every key outside the change-set,
\* what the upstream object held at the fetch of that same attempt.
C6_FreshFetch ==
    (pc = "uploading" /\ attempt > 0) =>
        /\ fetchedAt.attempt = attempt
        /\ \A k \in Keys \ DOMAIN changes : SameAt(merged_order, fetchedAt.order, k)

C6_Witness ==
    /\ pc = "uploading"
    /\ attempt > 0
    /\ fetchedAt.differs
    /\ \E k \in Keys \ DOMAIN changes :
          /\ k \in DOMAIN merged_order
          /\ merged_order[k] \in OtherValues

\* A step from a terminal position keeps the outcome and issues no call.
TerminalStays ==
    (pc \in Terminal) =>
        /\ pc' = pc
        /\ raised' = raised
        /\ updated_order' = updated_order
        /\ fetches' = fetches
        /\ uploads' = uploads

\* C7: a started run reaches a terminal position; there it has exactly one
\* outcome, a returned object or a raised error, and it stays there without
\* issuing a fetch or an upload.
C7_Terminates ==
    /\ (pc # "idle") ~> (pc \in Terminal)
    /\ [](pc = "done" => raised = NoError)
    /\ [](pc = "error" => raised # NoError)
    /\ [][TerminalStays]_vars

C7_Witness ==
    /\ pc = "done"
    /\ attempt = 2
    /\ conflicts = 2
    /\ otherWrites > 0

\* C9: when the conflict retries of an orders.update call are exhausted, the
\* tool's caller receives a ConflictError with code CONFLICT_ERROR.
C9_ToolConflictError ==
    (toolResult.status # "none" /\ raised.type = "ConflictError") =>
        /\ toolResult.status = "raised"
        /\ toolResult.error.type = "ConflictError"
        /\ toolResult.error.code = "CONFLICT_ERROR"

\* ------------------------------------------------------------------------
\* merge_order_changes on its own
\* ------------------------------------------------------------------------

\* Any fetched object and any change-set, before the merge.
MergeInit ==
    /\ StoreInit
    /\ ServicesInit
    /\ LimiterInit(DefaultSettings)
    /\ upstream = EmptyDict
    /\ changes \in Dicts(MergeKeys, MergeValues \cup {None})
    /\ max_retries = 0
    /\ attempt = 0
    /\ pc = "merging"
    /\ current_order \in Dicts(MergeKeys, MergeValues)
    /\ merged_order = EmptyDict
    /\ updated_order = EmptyDict
    /\ raised = NoError
    /\ inflight = {}
    /\ fetches = 0
    /\ uploads = 0
    /\ conflicts = 0
    /\ lastFailure = NoFailure
    /\ fetchedAt = [attempt |-> -1, order |-> EmptyDict, differs |-> FALSE]
    /\ otherWrites = 0
    /\ editedKeys = {}
    /\ preUpload = EmptyDict
    /\ viaTool = FALSE
    /\ toolResult = NoResult

\* merged_order = self.merge_order_changes(current_order, changes)
Merge ==
    /\ pc = "merging"
    /\ merged_order' = merge_order_changes(current_order, changes)
    /\ pc' = "merged"
    /\ UNCHANGED <<upstream, changes, max_retries, attempt, current_order,
                   updated_order, raised, inflight, fetches, uploads, conflicts,
                   lastFailure, fetchedAt, otherWrites, editedKeys, preUpload,
                   viaTool, toolResult>>
    /\ UNCHANGED otherThanRun

MergeNext ==
    \/ Merge

MergeSpec == MergeInit /\ [][MergeNext]_vars

\* C8: the merged object has exactly these entries: each key of the
\* change-set with a non-null value maps to that value, each key of the
\* change-set with a null value is absent, each key of the fetched object
\* outside the change-set keeps the fetched value, and no other key appears.
C8_MergeEntries ==
    pc = "merged" =>
        /\ DOMAIN merged_order \subseteq DOMAIN current_order \cup DOMAIN changes
        /\ \A k \in DOMAIN changes :
              IF changes[k] = None
              THEN k \notin DOMAIN merged_order
              ELSE k \in DOMAIN merged_order /\ merged_order[k] = changes[k]
        /\ \A k \in DOMAIN current_order \ DOMAIN changes :
              k \in DOMAIN merged_order /\ merged_order[k] = current_order[k]

C8_Witness ==
    /\ pc = "merged"
    /\ current_order = [k \in {"a", "b", "c"} |->
                          CASE k = "a" -> "1" [] k = "b" -> "2" [] k = "c" -> "3"]
    /\ changes = [k \in {"b", "c"} |-> IF k = "b" THEN None ELSE "5"]
    /\ merged_order = [k \in {"a", "c"} |-> IF k = "a" THEN "1" ELSE "5"]

\* ------------------------------------------------------------------------
\* StoreService
\* ------------------------------------------------------------------------

\* Rows of the tenants table.
Tenants == {"tA", "tB"}

\* Tenant ids a call may be made with: the tenants, and an id of no tenant.
CallerIds == Tenants \cup {"tX"}

\* Strings used as upstream store ids, friendly names and identifiers.
Idents == {"shop", "Shop"}

\* SQL lower()
Lower(x) == IF x = "Shop" THEN "shop" ELSE x

\* A row of the stores table; id stands for the primary key and, being
\* assigned in insertion order, for created_at.
StoreRow(id, t, sid, name) ==
    [id |-> id, tenant_id |-> t, store_id |-> sid, store_name |-> name]

\* The rows of S as a sequence, largest id first: order_by(created_at.desc()).
RECURSIVE NewestFirst(_)
NewestFirst(S) ==
    IF S = {} THEN <<>>
    ELSE LET newest == CHOOSE r \in S : \A q \in S : q.id <= r.id
         IN <<newest>> \o NewestFirst(S \ {newest})

\* A lookup by store id that does not filter by tenant.
GetStoreAnyTenant(t, sid) == {r \in stores : r.store_id = sid}

\* The rows the query of get_store matches.
GetStoreRows(t, sid) == {r \in stores : r.tenant_id = t /\ r.store_id = sid}

\* The rows the query of get_store_by_name matches.
GetStoreByNameRows(t, name) ==
    {r \in stores : r.tenant_id = t /\ Lower(r.store_name) = Lower(name)}

\* The rows the first duplicate check of register_store matches.
ExistingByName(t, name) == {r \in stores : r.tenant_id = t /\ r.store_name = name}

\* The rows the second duplicate check of register_store matches.
ExistingById(t, sid) == {r \in stores : r.tenant_id = t /\ r.store_id = sid}

Call(op, t, arg) == [op |-> op, tenant_id |-> t, arg |-> arg, store_name |-> ""]

\* A call of register_store: arg is its store_id, store_name the name the
\* row gets (the store_name argument, or store_id when none is given).
CallRegister(t, sid, name) ==
    [op |-> "register_store", tenant_id |-> t, arg |-> sid, store_name |-> name]

\* A call that returned rows (a list, one Store, or None as no row).
Returned(rows) == [rows |-> rows, value |-> "rows", error |-> NoError, invalid |-> ""]

\* A call that returned a bool.
ReturnedBool(b) ==
    [rows |-> <<>>, value |-> IF b THEN "true" ELSE "false", error |-> NoError,
     invalid |-> ""]

\* A register_store of another session that has not returned yet.
NotReturned == [rows |-> <<>>, value |-> "running", error |-> NoError, invalid |-> ""]

\* A call that raised e; invalid is the key of ValidationError's invalid_fields.
Raised(e, invalid) == [rows |-> <<>>, value |-> "raised", error |-> e, invalid |-> invalid]

\* What Query(...).first() may return: any one of the matching rows (the
\* query has no order_by), or None when there is none.
First(rows) == IF rows = {} THEN {<<>>} ELSE {<<q>> : q \in rows}

\* get_store(tenant_id, store_id)
get_store(t, sid) == First(GetStoreRows(t, sid))

\* get_store_by_name(tenant_id, store_name)
get_store_by_name(t, name) == First(GetStoreByNameRows(t, name))

\* A resolution that looks the identifier up by name first, then by store id.
ResolveByNameFirst(t, identifier) ==
    IF \E r \in get_store_by_name(t, identifier) : r # <<>>
    THEN get_store_by_name(t, identifier)
    ELSE get_store(t, identifier)

\* resolve_store(tenant_id, identifier): by store id first, then by name.
resolve_store(t, identifier) ==
    IF \E r \in get_store(t, identifier) : r # <<>>
    THEN get_store(t, identifier)
    ELSE get_store_by_name(t, identifier)

\* register_store(tenant_id, store_id, api_key, store_name, label, tenant_key)
RegisterStore ==
    \E t \in CallerIds, sid \in Idents, name \in Idents \cup {None}, keyGiven \in BOOLEAN :
        LET store_name == IF name = None THEN sid ELSE name IN
        /\ keyGiven => t \in Tenants
        /\ lastCall' = CallRegister(t, sid, store_name)
        /\ UNCHANGED pending
        /\ IF ~keyGiven /\ t \notin Tenants
           THEN /\ lastReturn' = Raised(NotFoundError, "")
                /\ UNCHANGED <<stores, rowCount>>
           ELSE IF ExistingByName(t, store_name) # {}
           THEN /\ lastReturn' = Raised(ValidationError, "store_name")
                /\ UNCHANGED <<stores, rowCount>>
           ELSE IF ExistingById(t, sid) # {}
           THEN /\ lastReturn' = Raised(ValidationError, "store_id")
                /\ UNCHANGED <<stores, rowCount>>
           ELSE /\ rowCount < MaxRows
                /\ rowCount' = rowCount + 1
                /\ stores' = stores \cup {StoreRow(rowCount', t, sid, store_name)}
                /\ lastReturn' = Returned(<<StoreRow(rowCount', t, sid, store_name)>>)
        /\ UNCHANGED otherThanStore

\* A Store object as register_store builds it before db.add().
NewStore(t, sid, name) == [tenant_id |-> t, store_id |-> sid, store_name |-> name]

\* No unique constraint on the table.
NoConstraint(t, sid, name) == FALSE

\* UniqueConstraint(tenant_id, store_name) and UniqueConstraint(tenant_id,
\* store_id): TRUE when inserting (t, sid, name) would break one of them.
UniqueViolation(t, sid, name) ==
    \E r \in stores :
        /\ r.tenant_id = t
        /\ r.store_name = name \/ r.store_id = sid

\* register_store in another database session (another server process on
\* the same database), from its start to the end of its duplicate checks,
\* both of which found no row.
RegisterStoreChecked ==
    \E t \in Tenants, sid \in Idents, name \in Idents \cup {None} :
        LET store_name == IF name = None THEN sid ELSE name IN
        /\ Cardinality(pending) < MaxSessions
        /\ ExistingByName(t, store_name) = {}
        /\ ExistingById(t, sid) = {}
        /\ pending' = pending \cup {NewStore(t, sid, store_name)}
        /\ lastCall' = CallRegister(t, sid, store_name)
        /\ lastReturn' = NotReturned
        /\ UNCHANGED <<stores, rowCount>>
        /\ UNCHANGED otherThanStore

\* The rest of that register_store: db.add(store), db.commit(), return.
RegisterStoreCommit ==
    \E p \in pending :
        /\ pending' = pending \ {p}
        /\ lastCall' = CallRegister(p.tenant_id, p.store_id, p.store_name)
        /\ IF UniqueViolation(p.tenant_id, p.store_id, p.store_name)
           THEN /\ lastReturn' = Raised(IntegrityError, "")
                /\ UNCHANGED <<stores, rowCount>>
           ELSE /\ rowCount < MaxRows
                /\ rowCount' = rowCount + 1
                /\ stores' = stores \cup
                      {StoreRow(rowCount', p.tenant_id, p.store_id, p.store_name)}
                /\ lastReturn' = Returned(
                      <<StoreRow(rowCount', p.tenant_id, p.store_id, p.store_name)>>)
        /\ UNCHANGED otherThanStore

\* list_stores(tenant_id)
ListStores ==
    \E t \in CallerIds :
        /\ lastCall' = Call("list_stores", t, "")
        /\ lastReturn' = Returned(NewestFirst({r \in stores : r.tenant_id = t}))
        /\ UNCHANGED <<stores, rowCount, pending>>
        /\ UNCHANGED otherThanStore

\* A call of get_store(tenant_id, store_id)
GetStore ==
    \E t \in CallerIds, sid \in Idents :
        \E r \in get_store(t, sid) :
            /\ lastCall' = Call("get_store", t, sid)
            /\ lastReturn' = Returned(r)
            /\ UNCHANGED <<stores, rowCount, pending>>
            /\ UNCHANGED otherThanStore

\* A call of get_store_by_name(tenant_id, store_name)
GetStoreByName ==
    \E t \in CallerIds, name \in Idents :
        \E r \in get_store_by_name(t, name) :
            /\ lastCall' = Call("get_store_by_name", t, name)
            /\ lastReturn' = Returned(r)
            /\ UNCHANGED <<stores, rowCount, pending>>
            /\ UNCHANGED otherThanStore

\* A call of resolve_store(tenant_id, identifier)
ResolveStore ==
    \E t \in CallerIds, identifier \in Idents :
        \E r \in resolve_store(t, identifier) :
            /\ lastCall' = Call("resolve_store", t, identifier)
            /\ lastReturn' = Returned(r)
            /\ UNCHANGED <<stores, rowCount, pending>>
            /\ UNCHANGED otherThanStore

\* A delete_store that raises NotFoundError when it finds no row.
DeleteStoreRaises ==
    \E t \in CallerIds, sid \in Idents :
        \E r \in get_store(t, sid) :
            /\ lastCall' = Call("delete_store", t, sid)
            /\ IF r = <<>>
               THEN /\ lastReturn' = Raised(NotFoundError, "")
                    /\ stores' = stores
               ELSE /\ lastReturn' = ReturnedBool(TRUE)
                    /\ stores' = stores \ {r[1]}
            /\ UNCHANGED <<rowCount, pending>>
            /\ UNCHANGED otherThanStore

\* delete_store(tenant_id, store_id)
DeleteStore ==
    \E t \in CallerIds, sid \in Idents :
        \E r \in get_store(t, sid) :
            /\ lastCall' = Call("delete_store", t, sid)
            /\ IF r = <<>>
               THEN /\ lastReturn' = ReturnedBool(FALSE)
                    /\ stores' = stores
               ELSE /\ lastReturn' = ReturnedBool(TRUE)
                    /\ stores' = stores \ {r[1]}
            /\ UNCHANGED <<rowCount, pending>>
            /\ UNCHANGED otherThanStore

StoreNext ==
    \/ RegisterStore
    \/ RegisterStoreChecked
    \/ RegisterStoreCommit
    \/ ListStores
    \/ GetStore
    \/ GetStoreByName
    \/ ResolveStore
    \/ DeleteStore

\* An empty stores table; no order update is running.
StoreSpecInit ==
    /\ StoreInit
    /\ ServicesInit
    /\ LimiterInit(DefaultSettings)
    /\ RunInit(EmptyDict)

StoreSpec == StoreSpecInit /\ [][StoreNext]_vars

\* A StoreService call made with tenant id t returns only rows of t, and
\* every row of another tenant is in the table before and after it.
IsolationStep ==
    LET t == lastCall'.tenant_id IN
    /\ \A i \in DOMAIN lastReturn'.rows : lastReturn'.rows[i].tenant_id = t
    /\ \A r \in stores \cup stores' : r.tenant_id # t => (r \in stores /\ r \in stores')

\* C10: an operation called with one tenant's id never returns, deletes or
\* changes a store of another tenant, also when both tenants own stores with
\* the same friendly name or the same upstream store id.
C10_TenantIsolation == [][IsolationStep]_vars

C10_Witness ==
    \E r1, r2 \in stores :
        /\ r1.tenant_id = "tA"
        /\ r2.tenant_id = "tB"
        /\ r1.store_name = r2.store_name
        /\ r1.store_id = r2.store_id
        /\ r2.id < r1.id
        /\ lastCall = Call("resolve_store", "tA", r1.store_name)
        /\ lastReturn = Returned(<<r1>>)

\* C11: in every state of the stores table, whatever interleaving of
\* registrations (of this session and of other sessions) and deletions led
\* to it, no two rows of one tenant have the same store_name and no two rows
\* of one tenant have the same store_id.
C11_UniquePerTenant ==
    \A r1, r2 \in stores :
        (r1.tenant_id = r2.tenant_id /\
            (r1.store_name = r2.store_name \/ r1.store_id = r2.store_id))
        => r1 = r2

\* The commit of a registration that passed its duplicate checks was refused
\* by the table because another registration got in first.
C11_Witness ==
    /\ lastCall.op = "register_store"
    /\ lastReturn = Raised(IntegrityError, "")
    /\ \E r \in stores :
          /\ r.tenant_id = lastCall.tenant_id
          /\ r.store_name = lastCall.store_name
          /\ r.store_id # lastCall.arg

\* A step in which a register_store call ended.
RegisterEnds ==
    /\ lastCall'.op = "register_store"
    /\ lastReturn' # NotReturned

\* The rows that, just before the step, duplicate the registration that ends
\* in the step by name, and those that duplicate it by store id.
DuplicatesByName ==
    {r \in stores : r.tenant_id = lastCall'.tenant_id /\
                     r.store_name = lastCall'.store_name}

DuplicatesById ==
    {r \in stores : r.tenant_id = lastCall'.tenant_id /\
                     r.store_id = lastCall'.arg}

RejectsDuplicate ==
    (RegisterEnds /\ DuplicatesByName \cup DuplicatesById # {})
    => (lastReturn'.error = ValidationError /\ stores' = stores)

\* C12: a register_store that ends (commits) while the table holds a row of
\* the same tenant with the same store_name or the same store_id raises
\* ValidationError and leaves the table unchanged.
C12_DuplicateValidationError == [][RejectsDuplicate]_vars

NamesStoreId ==
    (RegisterEnds /\ DuplicatesById # {})
    => (lastReturn'.error = ValidationError /\ lastReturn'.invalid = "store_id")

\* C13: a register_store for a store id the tenant has already registered
\* raises a ValidationError whose invalid field is store_id, whatever name
\* the call gives.
C13_DuplicateIdNamed == [][NamesStoreId]_vars

\* C14: resolve_store(t, x) returns a row of t whose store_id is x when
\* there is one; otherwise a row of t whose store_name equals x ignoring
\* case when there is one; otherwise None.
C14_ResolveOrder ==
    lastCall.op = "resolve_store" =>
        LET t == lastCall.tenant_id
            x == lastCall.arg
            byId == {r \in stores : r.tenant_id = t /\ r.store_id = x}
            byName == {r \in stores : r.tenant_id = t /\ Lower(r.store_name) = Lower(x)}
        IN  IF byId # {} THEN \E r \in byId : lastReturn = Returned(<<r>>)
            ELSE IF byName # {} THEN \E r \in byName : lastReturn = Returned(<<r>>)
            ELSE lastReturn = Returned(<<>>)

\* The identifier is the store id of one store and the name of another
\* store of the tenant, and the one with that store id is returned.
C14_Witness ==
    \E r1, r2 \in stores :
        /\ r1 # r2
        /\ r1.tenant_id = "tA" /\ r2.tenant_id = "tA"
        /\ r1.store_id = "Shop" /\ r1.store_name = "shop"
        /\ r2.store_id = "shop" /\ r2.store_name = "Shop"
        /\ lastCall = Call("resolve_store", "tA", "Shop")
        /\ lastReturn = Returned(<<r1>>)

DeleteOfAbsent ==
    (/\ lastCall'.op = "delete_store"
     /\ ~\E r \in stores : r.tenant_id = lastCall'.tenant_id /\ r.store_id = lastCall'.arg)
    => (lastReturn' = ReturnedBool(FALSE) /\ stores' = stores)

\* C15: delete_store(t, id) for a store id of which t has no row returns
\* False, raises nothing and leaves the table as it was; the table being
\* unchanged, every repetition of the call does the same.
C15_DeleteAbsent == [][DeleteOfAbsent]_vars

\* Tenant tA deleted a store id that only tenant tB has registered.
C15_Witness ==
    /\ lastCall.op = "delete_store"
    /\ lastCall.tenant_id = "tA"
    /\ lastReturn = ReturnedBool(FALSE)
    /\ \E r \in stores : r.tenant_id = "tB" /\ r.store_id = lastCall.arg
    /\ ~\E r \in stores : r.tenant_id = "tA" /\ r.store_id = lastCall.arg

\* ------------------------------------------------------------------------
\* RateLimiter and TokenBucket
\*
\* Token amounts are held in units of 1/60 token and rates in tokens per
\* minute, so that elapsed * rate is a whole number for a clock that reads
\* whole seconds; the rounding of Python floats is not modelled.
\* check_tenant_limit, check_ip_limit, require_tenant_limit and
\* require_ip_limit reach no await of another coroutine before they return:
\* the event loop runs one check to its end before any other check, so a
\* check is one step, and concurrent checks are steps in any order.
\* ------------------------------------------------------------------------

\* The divisor of `rpm / 60.0`.
SecondsPerMinute == 60

\* Tenants and client addresses that make checks.
RateTenants == {"tA"}

IpAddresses == {"ip1"}

\* Literal["read", "write"] and Literal["login", "signup", "console"].
OperationTypes == {"read", "write"}

LimitTypes == {"login", "signup", "console"}

Min(a, b) == IF a <= b THEN a ELSE b

\* n tokens in units of 1/60 token.
Whole(n) == n * SecondsPerMinute

\* TokenBucket(capacity=capacity, rate=perMinute / 60.0, tokens=capacity,
\* last_refill=t)
TokenBucket(capacity, perMinute, t) ==
    [capacity |-> capacity, rate |-> perMinute, tokens |-> Whole(capacity),
     last_refill |-> t]

\* min(self.capacity, self.tokens + (elapsed * self.rate)) at time t
Refill(b, t) == Min(Whole(b.capacity), b.tokens + (t - b.last_refill) * b.rate)

\* A consume that admits as consume does and deducts nothing.
ConsumeKeepsTokens(b, n, t) ==
    [bucket |-> [b EXCEPT !.tokens = Refill(b, t), !.last_refill = t],
     allowed |-> Refill(b, t) >= Whole(n)]

\* TokenBucket.consume(tokens=n) at time t: the bucket after it, and its result.
consume(b, n, t) ==
    IF Refill(b, t) >= Whole(n)
    THEN [bucket |-> [b EXCEPT !.tokens = Refill(b, t) - Whole(n), !.last_refill = t],
          allowed |-> TRUE]
    ELSE [bucket |-> [b EXCEPT !.tokens = Refill(b, t), !.last_refill = t],
          allowed |-> FALSE]

\* The wait until one token is available, whatever the check costs.
TimeUntilOneToken(b, n) ==
    IF b.tokens >= Whole(1) THEN [num |-> 0, den |-> 1]
    ELSE [num |-> Whole(1) - b.tokens, den |-> b.rate]

\* TokenBucket.time_until_available(tokens=n), in seconds, as a fraction.
time_until_available(b, n) ==
    IF b.tokens >= Whole(n)
    THEN [num |-> 0, den |-> 1]
    ELSE [num |-> Whole(n) - b.tokens, den |-> b.rate]

\* int(x) of a fraction x >= 0
IntOf(x) == x.num \div x.den

\* int(bucket.time_until_available(tokens_needed)) + 1
RetryAfter(b, n) == IntOf(time_until_available(b, n)) + 1

\* A cost of 1 token for every operation type.
TokensNeededOne(operation_type) == 1

\* tokens_needed = 2 if operation_type == "write" else 1
TokensNeeded(operation_type) == IF operation_type = "write" THEN 2 ELSE 1

\* self.tenant_rate, per minute
tenant_rate == settings.rate_limit_rpm

\* A burst allowance of once the base rate.
TenantCapacityBase == settings.rate_limit_rpm

\* self.tenant_capacity = self.tenant_rpm * 2
tenant_capacity == settings.rate_limit_rpm * 2

\* RateLimiter._get_tenant_bucket: the tenant's bucket, created full if absent.
get_tenant_bucket(t) ==
    IF t \in DOMAIN tenant_buckets
    THEN tenant_buckets[t]
    ELSE TokenBucket(tenant_capacity, tenant_rate, now)

\* limits.get(limit_type, 60) of check_ip_limit
Limits(limit_type) ==
    CASE limit_type = "login" -> settings.webui_rate_limit_login
      [] limit_type = "signup" -> settings.webui_rate_limit_signup
      [] limit_type = "console" -> settings.webui_rate_limit_api_console
      [] OTHER -> 60

\* RateLimiter._get_ip_bucket: the bucket of (ip_address, limit_type),
\* created full if absent: TokenBucket(capacity=rpm, rate=rpm / 60.0, ...).
get_ip_bucket(ip, limit_type, rpm) ==
    IF <<ip, limit_type>> \in DOMAIN ip_buckets
    THEN ip_buckets[<<ip, limit_type>>]
    ELSE TokenBucket(rpm, rpm, now)

\* The ledger and the burst count of a tenant's bucket; those of a bucket
\* that does not exist yet are those of a new bucket.
LedgerOf(t) == IF t \in DOMAIN ledger THEN ledger[t] ELSE [granted |-> 0, refilled |-> 0]

BurstOf(t) == IF t \in DOMAIN burst THEN burst[t] ELSE 0

\* The body shared by check_tenant_limit and require_tenant_limit; fn is the
\* method called.
TenantCheck(fn, t, operation_type) ==
    LET tokens_needed == TokensNeeded(operation_type)
        bucket == get_tenant_bucket(t)
        result == consume(bucket, tokens_needed, now)
        retry_after == IF result.allowed THEN 0
                       ELSE RetryAfter(result.bucket, tokens_needed)
    IN  /\ tenant_buckets' = Put(tenant_buckets, t, result.bucket)
        /\ ledger' = Put(ledger, t,
              [granted |-> LedgerOf(t).granted +
                           (IF result.allowed THEN tokens_needed ELSE 0),
               refilled |-> LedgerOf(t).refilled + (Refill(bucket, now) - bucket.tokens)])
        /\ burst' = Put(burst, t,
              IF /\ BurstOf(t) >= 0
                 /\ BurstOf(t) < MaxBurstChecks
                 /\ tokens_needed = 1
                 /\ now = bucket.last_refill
              THEN BurstOf(t) + 1
              ELSE -1)
        /\ lastCheck' =
              [fn |-> fn, key |-> t, kind |-> operation_type, cost |-> tokens_needed,
               allowed |-> result.allowed, retry_after |-> retry_after,
               error |-> IF fn = "require_tenant_limit" /\ ~result.allowed
                         THEN RateLimitError(retry_after)
                         ELSE NoRateLimitError]
        /\ checks' = Min(checks + 1, MaxChecks)
        /\ UNCHANGED <<settings, ip_buckets, now>>
        /\ UNCHANGED otherThanLimiter

\* check_tenant_limit(tenant_id, operation_type)
CheckTenantLimit ==
    \E t \in RateTenants, operation_type \in OperationTypes :
        TenantCheck("check_tenant_limit", t, operation_type)

\* require_tenant_limit(tenant_id, operation_type)
RequireTenantLimit ==
    \E t \in RateTenants, operation_type \in OperationTypes :
        TenantCheck("require_tenant_limit", t, operation_type)

\* check_ip_limit(ip_address, limit_type), called directly (fn is
\* check_ip_limit) or by require_ip_limit, which raises
\* RateLimitError(retry_after=60) when it returns False.
IpCheck(fn, ip, limit_type) ==
    LET rpm == Limits(limit_type)
        bucket == get_ip_bucket(ip, limit_type, rpm)
        result == consume(bucket, 1, now)
        retry_after == IF result.allowed THEN 0 ELSE RetryAfter(result.bucket, 1)
    IN  /\ ip_buckets' = Put(ip_buckets, <<ip, limit_type>>, result.bucket)
        /\ lastCheck' =
              [fn |-> fn, key |-> ip, kind |-> limit_type, cost |-> 1,
               allowed |-> result.allowed, retry_after |-> retry_after,
               error |-> IF fn = "require_ip_limit" /\ ~result.allowed
                         THEN RateLimitError(60)
                         ELSE NoRateLimitError]
        /\ checks' = Min(checks + 1, MaxChecks)
        /\ UNCHANGED <<settings, tenant_buckets, now, ledger, burst>>
        /\ UNCHANGED otherThanLimiter

CheckIpLimit ==
    \E ip \in IpAddresses, limit_type \in LimitTypes :
        IpCheck("check_ip_limit", ip, limit_type)

RequireIpLimit ==
    \E ip \in IpAddresses, limit_type \in LimitTypes :
        IpCheck("require_ip_limit", ip, limit_type)

\* reset(tenant_id, ip_address): drop one tenant's bucket, or one address's
\* buckets, or all buckets.
Reset ==
    /\ \/ \E t \in RateTenants :
            /\ tenant_buckets' = Pop(tenant_buckets, t)
            /\ ledger' = Pop(ledger, t)
            /\ burst' = Pop(burst, t)
            /\ UNCHANGED ip_buckets
       \/ \E ip \in IpAddresses :
            /\ ip_buckets' = [k \in {j \in DOMAIN ip_buckets : j[1] # ip} |-> ip_buckets[k]]
            /\ UNCHANGED <<tenant_buckets, ledger, burst>>
       \/ /\ tenant_buckets' = EmptyDict
          /\ ip_buckets' = EmptyDict
          /\ ledger' = EmptyDict
          /\ burst' = EmptyDict
    /\ lastCheck' = [NoCheck EXCEPT !.fn = "reset"]
    /\ UNCHANGED <<settings, now, checks>>
    /\ UNCHANGED otherThanLimiter

\* time.time() reads ClockStep seconds more than at the previous step.
Tick ==
    /\ now < MaxTicks * ClockStep
    /\ now' = now + ClockStep
    /\ UNCHANGED <<settings, tenant_buckets, ip_buckets, lastCheck, ledger, burst, checks>>
    /\ UNCHANGED otherThanLimiter

\* At most MaxChecks checks, of tenants and of addresses, with resets and
\* clock advances in between.
LimiterNext ==
    \/ checks < MaxChecks /\ CheckTenantLimit
    \/ checks < MaxChecks /\ RequireTenantLimit
    \/ checks < MaxChecks /\ CheckIpLimit
    \/ checks < MaxChecks /\ RequireIpLimit
    \/ Reset
    \/ Tick

\* A new RateLimiter with small limits; no store call and no order update.
LimiterSpecInit ==
    /\ StoreInit
    /\ ServicesInit
    /\ RunInit(EmptyDict)
    /\ LimiterInit(SmallSettings)

LimiterSpec == LimiterSpecInit /\ [][LimiterNext]_vars

\* Base rates of the tenant family under which bursts are checked.
BurstRates == {60, 120}

BurstInit ==
    /\ StoreInit
    /\ ServicesInit
    /\ RunInit(EmptyDict)
    /\ \E r \in BurstRates : LimiterInit(TenantSettings(r))

\* Checks of tenants only.
BurstNext ==
    \/ CheckTenantLimit
    \/ RequireTenantLimit
    \/ Tick

BurstSpec == BurstInit /\ [][BurstNext]_vars

\* C16: with a base rate of 60 per minute, of k 1-token checks made on a new
\* (full) tenant bucket with no time passing, the first 120 are admitted and
\* no other: after k such checks exactly min(k, 120) tokens were granted.
C16_Burst120 ==
    \A t \in DOMAIN tenant_buckets :
        (settings.rate_limit_rpm = 60 /\ burst[t] >= 0)
        => ledger[t].granted = Min(burst[t], 120)

\* The 121st check of such a run was rejected.
C16_Witness ==
    /\ settings.rate_limit_rpm = 60
    /\ "tA" \in DOMAIN tenant_buckets
    /\ burst["tA"] = 121
    /\ ledger["tA"].granted = 120
    /\ ~lastCheck.allowed
    /\ now = 0

\* C17: whatever the order of the checks made on a tenant's bucket, the
\* tokens granted since the bucket was created never exceed the tokens it
\* started with plus the tokens refilled since; every granted token was
\* deducted and the token count is never negative.
C17_NoOverGrant ==
    \A t \in DOMAIN tenant_buckets :
        LET b == tenant_buckets[t] IN
        /\ b.tokens >= 0
        /\ b.tokens = b.capacity * 60 + ledger[t].refilled - ledger[t].granted * 60
        /\ ledger[t].granted * 60 <= b.capacity * 60 + ledger[t].refilled

\* Checks spent the whole bucket, a refill came in, and a later check was
\* rejected.
C17_Witness ==
    /\ "tA" \in DOMAIN tenant_buckets
    /\ ledger["tA"].granted = tenant_buckets["tA"].capacity
    /\ ledger["tA"].refilled > 0
    /\ lastCheck.key = "tA"
    /\ ~lastCheck.allowed

\* C18: every bucket, of a tenant or of an address, has a capacity of twice
\* the base rate per minute configured for its family and a refill rate of
\* that base rate per minute (base rate / 60 per second).
C18_CapacityTwiceRate ==
    /\ \A t \in DOMAIN tenant_buckets :
          /\ tenant_buckets[t].capacity = 2 * settings.rate_limit_rpm
          /\ tenant_buckets[t].rate = settings.rate_limit_rpm
    /\ \A k \in DOMAIN ip_buckets :
          /\ ip_buckets[k].capacity = 2 * Limits(k[2])
          /\ ip_buckets[k].rate = Limits(k[2])

\* A step that is a check of a tenant.
IsTenantCheck ==
    /\ lastCheck'.fn \in {"check_tenant_limit", "require_tenant_limit"}
    /\ now' = now
    /\ checks' # checks

\* The tokens (in 1/60 token) the checked tenant's bucket holds after the
\* refill of the check and before its deduction.
AvailableAtCheck ==
    LET t == lastCheck'.key IN
    IF t \in DOMAIN tenant_buckets
    THEN Min(tenant_buckets[t].capacity * 60,
             tenant_buckets[t].tokens +
                (now - tenant_buckets[t].last_refill) * tenant_buckets[t].rate)
    ELSE 2 * settings.rate_limit_rpm * 60

CostsOneOrTwo ==
    IsTenantCheck =>
        LET cost == IF lastCheck'.kind = "write" THEN 2 ELSE 1
            after == tenant_buckets'[lastCheck'.key].tokens
        IN  /\ lastCheck'.allowed <=> AvailableAtCheck >= cost * 60
            /\ after = IF lastCheck'.allowed THEN AvailableAtCheck - cost * 60
                       ELSE AvailableAtCheck

\* C19: a check of a tenant is admitted exactly when the bucket, after the
\* refill of the check, holds at least 1 token (read) or 2 tokens (write);
\* admitted, it lowers the refilled count by exactly that cost; rejected, it
\* deducts nothing.
C19_ReadOneWriteTwo == [][CostsOneOrTwo]_vars

\* A write was rejected although the bucket held more than 1 token.
C19_Witness ==
    /\ lastCheck.fn = "check_tenant_limit"
    /\ lastCheck.kind = "write"
    /\ ~lastCheck.allowed
    /\ "tA" \in DOMAIN tenant_buckets
    /\ tenant_buckets["tA"].tokens > 60
    /\ tenant_buckets["tA"].tokens < 120

\* C20: a RateLimitError raised by require_tenant_limit or require_ip_limit
\* has a retry_after_seconds detail, and it is greater than zero.
C20_RetryAfterPositive ==
    lastCheck.error.type = "RateLimitError" =>
        /\ lastCheck.error.retry_after_seconds # {}
        /\ \A r \in lastCheck.error.retry_after_seconds : r > 0

\* require_tenant_limit raised with a wait that the code computed from a
\* fraction of a token.
C20_Witness ==
    /\ lastCheck.fn = "require_tenant_limit"
    /\ lastCheck.error = RateLimitError(lastCheck.retry_after)
    /\ lastCheck.retry_after > 1
    /\ \E k \in DOMAIN ip_buckets : ip_buckets[k].tokens < 60

\* ------------------------------------------------------------------------
\* OrderDeskClient._request_with_retry
\* ------------------------------------------------------------------------

\* Status codes the upstream answers with.
HttpStatuses == {200, 400, 401, 403, 404, 409, 429, 500, 502, 503, 504}

\* retry_statuses of _handle_error_response
retry_statuses == {429, 500, 502, 503, 504}

\* What became of a request: a response with a status code, an
\* httpx.TimeoutException, or an httpx.NetworkError.
Response(status) == [kind |-> "response", status |-> status]

TimedOut == [kind |-> "timeout", status |-> 0]

NetworkFailed == [kind |-> "network", status |-> 0]

\* One more attempt than max_retries allows.
MayRetryOnceMore(n) == n <= client_max_retries

\* attempt < self.max_retries
MayRetry(n) == n < client_max_retries

\* A call _request_with_retry(method, path) with attempt = 0, up to the await
\* of self._client.request.
RequestWithRetry ==
    /\ hpc = "idle"
    /\ hpc' = "sending"
    /\ UNCHANGED <<client_max_retries, http_attempt, sent, afterBackoff, http_raised,
                   http_returned>>
    /\ UNCHANGED otherThanHttp

\* The request is answered. A status below 400 is returned to the caller;
\* otherwise _handle_error_response runs up to its raise, or up to the
\* await of _backoff when the status is in retry_statuses and attempts remain.
ResponseArrives ==
    \E status \in HttpStatuses :
        /\ hpc = "sending"
        /\ sent' = Append(sent, Response(status))
        /\ IF status < 400
           THEN /\ hpc' = "returned"
                /\ http_returned' = TRUE
                /\ UNCHANGED <<afterBackoff, http_raised>>
           ELSE IF status \in retry_statuses /\ MayRetry(http_attempt)
           THEN /\ hpc' = "backoff"
                /\ afterBackoff' = "raise"
                /\ UNCHANGED <<http_raised, http_returned>>
           ELSE /\ hpc' = "raised"
                /\ http_raised' = OrderDeskError(ErrorCode(status), status)
                /\ UNCHANGED <<afterBackoff, http_returned>>
        /\ UNCHANGED <<client_max_retries, http_attempt>>
        /\ UNCHANGED otherThanHttp

\* The except clause of httpx.TimeoutException (code TIMEOUT) or of
\* httpx.NetworkError (code NETWORK_ERROR), up to its await of _backoff or
\* to its raise.
TransportFailure(outcome, code) ==
    /\ hpc = "sending"
    /\ sent' = Append(sent, outcome)
    /\ IF MayRetry(http_attempt)
       THEN /\ hpc' = "backoff"
            /\ afterBackoff' = "retry"
            /\ UNCHANGED http_raised
       ELSE /\ hpc' = "raised"
            /\ http_raised' = OrderDeskError(code, 0)
            /\ UNCHANGED afterBackoff
    /\ UNCHANGED <<client_max_retries, http_attempt, http_returned>>
    /\ UNCHANGED otherThanHttp

RequestTimesOut == TransportFailure(TimedOut, "TIMEOUT")

RequestNetworkError == TransportFailure(NetworkFailed, "NETWORK_ERROR")

\* asyncio.sleep of _backoff ends. In an except clause the call recurses
\* with attempt + 1; in _handle_error_response the code goes on to its raise,
\* which `except OrderDeskError: raise` passes to the caller.
HttpBackoffEnds ==
    /\ hpc = "backoff"
    /\ IF afterBackoff = "retry"
       THEN /\ hpc' = "sending"
            /\ http_attempt' = http_attempt + 1
            /\ UNCHANGED http_raised
       ELSE /\ hpc' = "raised"
            /\ http_raised' = OrderDeskError(ErrorCode(sent[Len(sent)].status),
                                             sent[Len(sent)].status)
            /\ UNCHANGED http_attempt
    /\ afterBackoff' = "none"
    /\ UNCHANGED <<client_max_retries, sent, http_returned>>
    /\ UNCHANGED otherThanHttp

HttpNext ==
    \/ RequestWithRetry
    \/ ResponseArrives
    \/ RequestTimesOut
    \/ RequestNetworkError
    \/ HttpBackoffEnds

\* A client constructed with any max_retries up to MaxClientRetries.
HttpSpecInit ==
    /\ StoreInit
    /\ RunInit(EmptyDict)
    /\ LimiterInit(DefaultSettings)
    /\ \E n \in 0..MaxClientRetries : HttpInit(n)
    /\ SessionInit
    /\ CacheInit
    /\ TenantInit
    /\ MagicLinkInit
    /\ OwnedInit
    /\ CredentialInit
    /\ SleepInit

HttpSpec == HttpSpecInit /\ [][HttpNext]_vars

\* C21: a call does not end with the error of a 429, 500, 502, 503 or 504
\* response while fewer than max_retries retries were made: it sends the
\* request again.
C21_TransientRetried ==
    (/\ hpc = "raised"
     /\ sent[Len(sent)].kind = "response"
     /\ sent[Len(sent)].status \in {429, 500, 502, 503, 504})
    => Len(sent) = client_max_retries + 1

\* C22: a response with status 400, 401, 403 or 404 is the last request of
\* the call (a first response of that kind is its only request), and the
\* call raises the error code mapped to that status.
C22_ClientErrorNoRetry ==
    \A i \in DOMAIN sent :
        (sent[i].kind = "response" /\ sent[i].status \in {400, 401, 403, 404})
        => /\ i = Len(sent)
           /\ hpc = "raised"
           /\ http_raised.status = sent[i].status
           /\ http_raised.type = "OrderDeskError"
           /\ http_raised.code = CASE sent[i].status = 400 -> "BAD_REQUEST"
                                   [] sent[i].status = 401 -> "UNAUTHORIZED"
                                   [] sent[i].status = 403 -> "FORBIDDEN"
                                   [] sent[i].status = 404 -> "NOT_FOUND"

C22_Witness ==
    /\ client_max_retries = 3
    /\ sent = <<Response(404)>>
    /\ hpc = "raised"
    /\ http_raised.code = "NOT_FOUND"

\* C23: a call never sends more than max_retries + 1 requests; a call all
\* of whose requests timed out ends after exactly max_retries + 1 requests
\* with code TIMEOUT, and one all of whose requests had a network error
\* after exactly max_retries + 1 requests with code NETWORK_ERROR.
C23_TransportRetryBound ==
    /\ Len(sent) + (IF hpc = "sending" THEN 1 ELSE 0) <= client_max_retries + 1
    /\ (hpc = "raised" /\ \A i \in DOMAIN sent : sent[i].kind = "timeout")
       => (Len(sent) = client_max_retries + 1 /\ http_raised.code = "TIMEOUT")
    /\ (hpc = "raised" /\ \A i \in DOMAIN sent : sent[i].kind = "network")
       => (Len(sent) = client_max_retries + 1 /\ http_raised.code = "NETWORK_ERROR")

C23_Witness ==
    /\ client_max_retries = 3
    /\ hpc = "raised"
    /\ sent = <<TimedOut, TimedOut, TimedOut, TimedOut>>
    /\ http_raised = OrderDeskError("TIMEOUT", 0)

\* ------------------------------------------------------------------------
\* Session context and the tools that read it
\* ------------------------------------------------------------------------

\* crypto.derive_tenant_key(master_key, salt) for the master key of tenant t.
DerivedKey(t) == IF t = "tA" THEN "key-tA" ELSE "key-tB"

\* Store.id, the primary key of a row: str(uuid.uuid4()), the column default.
PrimaryKey(id) == <<"uuid-1", "uuid-2", "uuid-3">>[id]

\* SessionContext(): no tenant, no key, no active store. `writers` is the
\* set of tasks that assigned a field of the object, `resolved` the row the
\* latest successful use_store found.
NewSessionContext ==
    [tenant_id |-> None, tenant_key |-> None, active_store_id |-> None,
     writers |-> {}, resolved |-> <<>>]

\* One context for every task.
SharedContext(r) == "r1"

\* The context task r runs in: its own.
ContextOf(r) == r

\* _session_context.get() in task r
ContextVarGet(r) == session_context[ContextOf(r)]

\* get_context(): the SessionContext of the context, created when the
\* ContextVar holds None. get_context is the index of the object, the next
\* two are `objects` and `session_context` once it returned.
get_context(r) == IF ContextVarGet(r) = 0 THEN Len(objects) + 1 ELSE ContextVarGet(r)

ObjectsAfterGet(r) ==
    IF ContextVarGet(r) = 0 THEN Append(objects, NewSessionContext) ELSE objects

ContextVarAfterGet(r) == [session_context EXCEPT ![ContextOf(r)] = get_context(r)]

\* The object get_context() returns in task r.
Ctx(r) == ObjectsAfterGet(r)[get_context(r)]

get_tenant_id(r) == Ctx(r).tenant_id

get_tenant_key(r) == Ctx(r).tenant_key

\* A require_auth that never raises.
NoAuthRequired(r) == NoError

\* require_auth(): AuthError if not tenant_id.
require_auth(r) == IF get_tenant_id(r) = None THEN AuthError ELSE NoError

\* Stores tables after register_store calls that succeeded, with the latest
\* of these calls and what it returned.
RegisteredTables ==
    {[stores |-> {StoreRow(1, "tA", "shop", "shop")},
      rowCount |-> 1,
      lastCall |-> CallRegister("tA", "shop", "shop"),
      lastReturn |-> Returned(<<StoreRow(1, "tA", "shop", "shop")>>)],
     [stores |-> {StoreRow(1, "tA", "shop", "Shop"), StoreRow(2, "tB", "shop", "shop")},
      rowCount |-> 2,
      lastCall |-> CallRegister("tB", "shop", "shop"),
      lastReturn |-> Returned(<<StoreRow(2, "tB", "shop", "shop")>>)]}

\* Tools that take an optional store_identifier and fall back on the active
\* store of the session.
ActiveStoreTools ==
    {"orders.get", "products.list"}

\* The outcome of a tool call of task r.
ToolEnded(r, tool, identifier, error, store, read_store, upstream_called) ==
    [task |-> r, tool |-> tool, identifier |-> identifier,
     authenticated |-> get_tenant_id(r) # None, error |-> error, store |-> store,
     resolved |-> Ctx(r).resolved, read_store |-> read_store,
     upstream |-> upstream_called]

\* mcp_http_endpoint up to set_tenant(str(tenant.id), tenant_key), for a
\* request bearing the master key of tenant t.
SetTenant(r) ==
    \E t \in Tenants :
        /\ frame[r].pc = "idle"
        /\ frame[r].principal = None
        /\ session_context' = ContextVarAfterGet(r)
        /\ objects' = [ObjectsAfterGet(r) EXCEPT ![get_context(r)] =
              [@ EXCEPT !.tenant_id = t, !.tenant_key = DerivedKey(t),
                        !.writers = @ \cup {r}]]
        /\ frame' = [frame EXCEPT ![r].principal = t]
        /\ UNCHANGED lastTool
        /\ UNCHANGED otherThanSession

\* use_store(identifier) in task r
UseStore(r) ==
    \E identifier \in Idents :
        /\ frame[r].pc = "idle"
        /\ session_context' = ContextVarAfterGet(r)
        /\ frame' = [frame EXCEPT ![r].tenant_id = get_tenant_id(r)]
        /\ IF require_auth(r) # NoError
           THEN /\ objects' = ObjectsAfterGet(r)
                /\ lastTool' = ToolEnded(r, "stores.use_store", identifier,
                                         require_auth(r), <<>>, FALSE, FALSE)
           ELSE \E store \in resolve_store(get_tenant_id(r), identifier) :
                IF store = <<>>
                THEN /\ objects' = ObjectsAfterGet(r)
                     /\ lastTool' = ToolEnded(r, "stores.use_store", identifier,
                                              NotFoundError, <<>>, TRUE, FALSE)
                ELSE /\ objects' = [ObjectsAfterGet(r) EXCEPT ![get_context(r)] =
                            [@ EXCEPT !.active_store_id = PrimaryKey(store[1].id),
                                      !.writers = @ \cup {r},
                                      !.resolved = store]]
                     /\ lastTool' = ToolEnded(r, "stores.use_store", identifier,
                                              NoError, store, TRUE, FALSE)
        /\ UNCHANGED otherThanSession

\* A tool of ActiveStoreTools in task r, up to the end of
\* tenant_id = require_auth(); tenant_key = get_tenant_key().
BeginTool(r) ==
    \E tool \in ActiveStoreTools, identifier \in Idents \cup {None} :
        /\ frame[r].pc = "idle"
        /\ session_context' = ContextVarAfterGet(r)
        /\ objects' = ObjectsAfterGet(r)
        /\ IF require_auth(r) # NoError
           THEN /\ frame' = [frame EXCEPT ![r].tenant_id = get_tenant_id(r)]
                /\ lastTool' = ToolEnded(r, tool, identifier, require_auth(r),
                                         <<>>, FALSE, FALSE)
           ELSE /\ frame' = [frame EXCEPT ![r].pc = "resolving",
                                          ![r].tool = tool,
                                          ![r].identifier = identifier,
                                          ![r].tenant_id = get_tenant_id(r),
                                          ![r].tenant_key = get_tenant_key(r)]
                /\ UNCHANGED lastTool
        /\ UNCHANGED otherThanSession

\* The rest of that tool: the store is resolved from store_identifier, or
\* from the active store of the session; with a store, the tool goes on to
\* the cache and the upstream.
ResolveTool(r) ==
    LET f == frame[r]
        active == Ctx(r).active_store_id
        found == IF f.identifier # None
                 THEN resolve_store(f.tenant_id, f.identifier)
                 ELSE IF active = None THEN {<<>>}
                 ELSE get_store(f.tenant_id, active)
    IN
    /\ f.pc = "resolving"
    /\ session_context' = ContextVarAfterGet(r)
    /\ objects' = ObjectsAfterGet(r)
    /\ frame' = [frame EXCEPT ![r].pc = "idle",
                              ![r].tool = "",
                              ![r].identifier = None,
                              ![r].active_store_id =
                                  IF f.identifier = None THEN active ELSE @]
    /\ \E store \in found :
          lastTool' =
              IF f.identifier = None /\ active = None
              THEN ToolEnded(r, f.tool, f.identifier, ValidationError, <<>>, FALSE, FALSE)
              ELSE IF store = <<>>
              THEN ToolEnded(r, f.tool, f.identifier, NotFoundError, <<>>, TRUE, FALSE)
              ELSE ToolEnded(r, f.tool, f.identifier, NoError, store, TRUE, TRUE)
    /\ UNCHANGED otherThanSession

SessionNext ==
    \E r \in Tasks :
        \/ SetTenant(r)
        \/ UseStore(r)
        \/ BeginTool(r)
        \/ ResolveTool(r)

\* Two tasks that did nothing yet, and a stores table with registered stores.
SessionSpecInit ==
    /\ \E table \in RegisteredTables :
          /\ stores = table.stores
          /\ rowCount = table.rowCount
          /\ lastCall = table.lastCall
          /\ lastReturn = table.lastReturn
          /\ pending = {}
    /\ RunInit(EmptyDict)
    /\ LimiterInit(DefaultSettings)
    /\ HttpInit(DefaultClientRetries)
    /\ SessionInit
    /\ CacheInit
    /\ TenantInit
    /\ MagicLinkInit
    /\ OwnedInit
    /\ CredentialInit
    /\ SleepInit

SessionSpec == SessionSpecInit /\ [][SessionNext]_vars

\* C24: whatever a task read from the session (tenant id, derived key,
\* active store) is None or a value of the tenant whose master key the task
\* bears, and the SessionContext of its context was written by no other task.
C24_SessionIsolated ==
    \A r \in Tasks :
        LET f == frame[r] IN
        /\ f.tenant_id \in {None, f.principal}
        /\ f.tenant_key # None => f.principal # None /\ f.tenant_key = DerivedKey(f.principal)
        /\ f.active_store_id # None =>
              \E s \in stores : /\ s.tenant_id = f.principal
                                /\ PrimaryKey(s.id) = f.active_store_id
        /\ ContextVarGet(r) # 0 => objects[ContextVarGet(r)].writers \subseteq {r}

\* Two tasks of different tenants, both having read their session while the
\* other one had written its own, one of them with an active store.
C24_Witness ==
    /\ frame["r1"].principal = "tA"
    /\ frame["r2"].principal = "tB"
    /\ frame["r1"].tenant_key = "key-tA"
    /\ frame["r2"].tenant_key = "key-tB"
    /\ frame["r1"].pc = "resolving"
    /\ frame["r2"].active_store_id # None

\* C25: a tool called in a session without a tenant ends with AuthError,
\* having read no store record and called no upstream.
C25_AuthErrorFirst ==
    (lastTool.task # "" /\ ~lastTool.authenticated)
    => /\ lastTool.error = AuthError
       /\ ~lastTool.read_store
       /\ ~lastTool.upstream

\* An order tool called with a store identifier in a session without a
\* tenant, while another session has one.
C25_Witness ==
    /\ lastTool.tool = "orders.get"
    /\ lastTool.identifier = "shop"
    /\ ~lastTool.authenticated
    /\ \E r \in Tasks : frame[r].principal = "tA" /\ r # lastTool.task

\* C26: a tool called without a store identifier in a session whose
\* use_store succeeded operates on the store use_store resolved.
C26_ActiveStoreUsed ==
    (/\ lastTool.tool \in ActiveStoreTools
     /\ lastTool.identifier = None
     /\ lastTool.resolved # <<>>)
    => /\ lastTool.error = NoError
       /\ lastTool.store = lastTool.resolved

\* ------------------------------------------------------------------------
\* The order cache: get_order_mcp and update_order_mcp
\* ------------------------------------------------------------------------

\* TRUE once update_order_mcp ended after its update_order_with_retry had
\* returned, that is after the upstream took the update.
UpdateEnded == viaTool /\ pc = "done" /\ toolResult # NoResult

\* The except clauses of get_order_mcp.
GetOutcome(e) ==
    IF e.type = "OrderDeskError" /\ e.code = "NOT_FOUND" THEN NotFoundError ELSE e

\* get_order_mcp for order X of the store, from the cache lookup on: a
\* cached object that is truthy is returned; otherwise the order is fetched
\* from the upstream and cached with the TTL of orders.
GetOrderTool ==
    LET key == GenerateKey(CacheTenant, CacheStore, CacheOrder)
        cached == BackendGet(cache, key, now)
        looked == BackendAfterGet(cache, key, now)
    IN
    IF cached # <<>> /\ cached[1] # EmptyDict
    THEN /\ cache' = looked
         /\ lastGet' = [status |-> "success", order |-> cached[1], cached |-> TRUE,
                        after_update |-> UpdateEnded, error |-> NoError]
         /\ UNCHANGED otherThanCache
    ELSE \E e \in FetchErrors \cup {NoError} :
         /\ IF e = NoError
            THEN /\ cache' = BackendSet(looked, key, upstream, OrdersTtl, now)
                 /\ lastGet' = [status |-> "success", order |-> upstream,
                                cached |-> FALSE, after_update |-> UpdateEnded,
                                error |-> NoError]
            ELSE /\ cache' = looked
                 /\ lastGet' = [status |-> "raised", order |-> EmptyDict,
                                cached |-> FALSE, after_update |-> UpdateEnded,
                                error |-> GetOutcome(e)]
         /\ UNCHANGED otherThanCache

\* One orders.update and any number of orders.get of the same order, with
\* time passing.
CacheNext ==
    \/ CallTool
    \/ IssueFetch
    \/ FetchReturns
    \/ FetchFails
    \/ UploadReturns
    \/ UploadFails
    \/ BackoffDone
    \/ ToolReturn
    \/ GetOrderTool
    \/ Tick

CacheSpec == Init /\ [][CacheNext]_vars

\* C27: an orders.get that is called after an orders.update changed the
\* upstream order and ended returns the object the upstream holds.
C27_FreshAfterUpdate ==
    (lastGet.status = "success" /\ lastGet.after_update) => lastGet.order = upstream

\* ------------------------------------------------------------------------
\* TenantService
\* ------------------------------------------------------------------------

\* Master keys presented by callers.
MasterKeys == {"k1", "k2", "k3"}

\* bcrypt.hashpw(master_key, salt): the salt and a digest of key and salt.
HashPw(master_key, salt) == [salt |-> salt, digest |-> <<master_key, salt>>]

\* A verification that compares with a hash made with a new salt.
VerifyFreshHash(master_key, stored_hash) ==
    HashPw(master_key, tenantCount + 1) = stored_hash

\* crypto.verify_master_key: bcrypt.checkpw hashes the key with the salt of
\* the stored hash and compares.
verify_master_key(master_key, stored_hash) ==
    HashPw(master_key, stored_hash.salt) = stored_hash

\* Tenant.id of the n-th tenant created: str(uuid.uuid4()), the column
\* default.
TenantId(n) == <<"tA", "tB", "tC", "tD">>[n]

\* A row of the tenants table. bcrypt.gensalt() is a new salt at each call:
\* the number of the row.
TenantRow(n, master_key) ==
    [id |-> TenantId(n), master_key_hash |-> HashPw(master_key, n)]

\* The tenants authenticate(master_key) may return: the first row, in the
\* order of an unordered query, whose hash verifies.
Authenticating(master_key) ==
    {t \in tenant_rows : verify_master_key(master_key, t.master_key_hash)}

\* The tenants whose stored hash was made from master_key.
TenantsOf(master_key) ==
    {t \in tenant_rows : t.master_key_hash.digest[1] = master_key}

AuthCall(op, master_key, auto_provision, returned, created, error) ==
    [op |-> op, master_key |-> master_key, auto_provision |-> auto_provision,
     existing |-> {t.id : t \in TenantsOf(master_key)},
     returned |-> returned, created |-> created, error |-> error]

\* create_tenant(master_key)
CreateTenant ==
    \E master_key \in MasterKeys :
        /\ IF Authenticating(master_key) # {}
           THEN /\ lastAuth' = AuthCall("create_tenant", master_key, FALSE, None, FALSE, AuthError)
                /\ UNCHANGED <<tenant_rows, tenantCount>>
           ELSE /\ tenantCount < MaxTenants
                /\ tenantCount' = tenantCount + 1
                /\ tenant_rows' = tenant_rows \cup {TenantRow(tenantCount', master_key)}
                /\ lastAuth' = AuthCall("create_tenant", master_key, FALSE,
                                        TenantId(tenantCount'), TRUE, NoError)
        /\ UNCHANGED otherThanTenant

\* authenticate_or_create(master_key, auto_provision); returned is the id of
\* the tenant it returns, or None.
AuthenticateOrCreate ==
    \E master_key \in MasterKeys, auto_provision \in BOOLEAN :
        /\ IF Authenticating(master_key) # {}
           THEN \E tenant \in Authenticating(master_key) :
                /\ lastAuth' = AuthCall("authenticate_or_create", master_key,
                                        auto_provision, tenant.id, FALSE, NoError)
                /\ UNCHANGED <<tenant_rows, tenantCount>>
           ELSE IF auto_provision
           THEN /\ tenantCount < MaxTenants
                /\ tenantCount' = tenantCount + 1
                /\ tenant_rows' = tenant_rows \cup {TenantRow(tenantCount', master_key)}
                /\ lastAuth' = AuthCall("authenticate_or_create", master_key,
                                        auto_provision, TenantId(tenantCount'), TRUE,
                                        NoError)
           ELSE /\ lastAuth' = AuthCall("authenticate_or_create", master_key,
                                        auto_provision, None, FALSE, NoError)
                /\ UNCHANGED <<tenant_rows, tenantCount>>
        /\ UNCHANGED otherThanTenant

TenantNext ==
    \/ CreateTenant
    \/ AuthenticateOrCreate

TenantSpec == Init /\ [][TenantNext]_vars

Token(n) == <<"tok1", "tok2", "tok3">>[n]

\* A token that was never generated.
ForgedToken == "forged"

\* sha256(token.encode()).hexdigest()
Sha256(token) == <<"sha256", token>>

Purposes == {"email_verification", "password_reset"}

\* Values of expiry_seconds: one clock step, and the default.
ExpirySeconds == {ClockStep, 900}

\* The row generate_magic_link inserts for the n-th link.
LinkRow(n, purpose, tenant_id, expires_at) ==
    [id |-> n, token |-> Token(n), token_hash |-> Sha256(Token(n)),
     purpose |-> purpose, tenant_id |-> tenant_id, used |-> FALSE,
     expires_at |-> expires_at]

\* generate_magic_link(email, purpose, tenant_id, ip_address, expiry_seconds)
\* for a tenant_id that is None or the id of a row of the tenants table.
GenerateMagicLink ==
    \E purpose \in Purposes, expiry_seconds \in ExpirySeconds,
       tenant_id \in {None} \cup {t.id : t \in tenant_rows} :
        /\ linkCount < MaxLinks
        /\ linkCount' = linkCount + 1
        /\ magic_links' = magic_links \cup
              {LinkRow(linkCount', purpose, tenant_id, now + expiry_seconds)}
        /\ verified' = Append(verified, 0)
        /\ UNCHANGED <<loaded, lastVerify>>
        /\ UNCHANGED otherThanMagicLink

\* The rows the query of verify_magic_link matches.
UnusedLinks(token, purpose) ==
    {m \in magic_links :
        m.token_hash = Sha256(token) /\ m.purpose = purpose /\ m.used = FALSE}

\* verify_magic_link(token, purpose) in database session s, up to the end
\* of the expiry check: it returns (False, None, None), or goes on with the
\* MagicLink it loaded.
VerifyQuery(s) ==
    \E token \in {Token(n) : n \in 1..linkCount} \cup {ForgedToken}, purpose \in Purposes :
        /\ loaded[s] = 0
        /\ IF UnusedLinks(token, purpose) = {}
           THEN /\ lastVerify' = [session |-> s, token |-> token, purpose |-> purpose,
                                  success |-> FALSE, link |-> 0]
                /\ UNCHANGED loaded
           ELSE \E m \in UnusedLinks(token, purpose) :
                IF m.expires_at < now
                THEN /\ lastVerify' = [session |-> s, token |-> token,
                                       purpose |-> purpose, success |-> FALSE,
                                       link |-> m.id]
                     /\ UNCHANGED loaded
                ELSE /\ loaded' = [loaded EXCEPT ![s] = m.id]
                     /\ UNCHANGED lastVerify
        /\ UNCHANGED <<magic_links, linkCount, verified>>
        /\ UNCHANGED otherThanMagicLink

\* The rest of verify_magic_link in session s: used = True, token = "",
\* db.commit() (an UPDATE of the row by its primary key), return True.
VerifyCommit(s) ==
    /\ loaded[s] # 0
    /\ \E m \in magic_links :
          /\ m.id = loaded[s]
          /\ magic_links' = (magic_links \ {m}) \cup
                {[m EXCEPT !.used = TRUE, !.token = ""]}
          /\ lastVerify' = [session |-> s, token |-> Token(m.id), purpose |-> m.purpose,
                            success |-> TRUE, link |-> m.id]
    /\ verified' = [verified EXCEPT ![loaded[s]] = @ + 1]
    /\ loaded' = [loaded EXCEPT ![s] = 0]
    /\ UNCHANGED linkCount
    /\ UNCHANGED otherThanMagicLink

MagicLinkNext ==
    \/ GenerateMagicLink
    \/ \E s \in DbSessions : VerifyQuery(s)
    \/ \E s \in DbSessions : VerifyCommit(s)
    \/ Tick

\* Magic links generated and verified in two database sessions.
MagicLinkSpec == Init /\ [][MagicLinkNext]_vars

\* C29: no magic link is verified successfully more than once.
C29_SingleUse == \A n \in DOMAIN verified : verified[n] <= 1

\* ------------------------------------------------------------------------
\* Deletion of a tenant
\* ------------------------------------------------------------------------

\* The tables, besides stores and magic_links, whose tenant_id is a foreign
\* key to tenants.id with ON DELETE CASCADE.
OwnedTables == {"audit_log", "sessions", "master_key_metadata"}

\* Ids of the rows of the tenants table.
TenantIds == {t.id : t \in tenant_rows}

\* Ids a deletion may be asked for: of tenants created, and of no tenant.
UserIds == {TenantId(n) : n \in 1..tenantCount} \cup {"tX"}

\* magic_links tables after generate_magic_link calls at time 0, for the
\* tenants tA and tB and for no tenant, none of them verified.
GeneratedLinks ==
    {{},
     {LinkRow(1, "email_verification", "tA", 900)},
     {LinkRow(1, "email_verification", "tA", 900),
      LinkRow(2, "email_verification", "tB", 900)},
     {LinkRow(1, "email_verification", None, 900),
      LinkRow(2, "password_reset", "tB", ClockStep)}}

\* Every row.
OwnedByAnyone(rows, user_id) == rows

\* The rows a query filtered on tenant_id == user_id matches, and the rows
\* ON DELETE CASCADE removes with the tenant user_id.
OwnedBy(rows, user_id) == {r \in rows : r.tenant_id = user_id}

\* db.add(Store(tenant_id=...)); db.commit(): the foreign key and the unique
\* constraints hold.
InsertStore ==
    \E t \in TenantIds, sid \in Idents :
        /\ rowCount < MaxRows
        /\ ~UniqueViolation(t, sid, sid)
        /\ rowCount' = rowCount + 1
        /\ stores' = stores \cup {StoreRow(rowCount', t, sid, sid)}
        /\ UNCHANGED <<lastCall, lastReturn, pending>>
        /\ UNCHANGED otherThanStore

\* A row of audit_log, sessions or master_key_metadata is inserted for a
\* tenant of the tenants table.
InsertOwned ==
    \E table \in OwnedTables, t \in TenantIds :
        /\ ownedCount < MaxOwned
        /\ ownedCount' = ownedCount + 1
        /\ owned' = owned \cup {[table |-> table, id |-> ownedCount', tenant_id |-> t]}
        /\ UNCHANGED lastDelete
        /\ UNCHANGED otherThanOwned

\* The tenant user_id goes, with the rows of every table that reference it.
RemoveTenant(op, user_id) ==
    /\ stores' = stores \ OwnedBy(stores, user_id)
    /\ owned' = owned \ OwnedBy(owned, user_id)
    /\ magic_links' = magic_links \ OwnedBy(magic_links, user_id)
    /\ tenant_rows' = {t \in tenant_rows : t.id # user_id}
    /\ lastDelete' =
          [op |-> op, user_id |-> user_id, returned |-> TRUE,
           removed |-> Cardinality(OwnedBy(stores, user_id))
                       + Cardinality(OwnedBy(owned, user_id))
                       + Cardinality(OwnedBy(magic_links, user_id))]
    /\ UNCHANGED <<rowCount, lastCall, lastReturn, pending, ownedCount, tenantCount,
                   lastAuth, linkCount, loaded, verified, lastVerify>>
    /\ UNCHANGED <<mvars, lvars, hvars, xvars, kvars, cvars, bvars>>

\* UserService.delete_user(user_id, deleted_by)
DeleteUser ==
    \E user_id \in UserIds :
        IF user_id \notin TenantIds
        THEN /\ lastDelete' = [op |-> "delete_user", user_id |-> user_id,
                               returned |-> FALSE, removed |-> 0]
             /\ UNCHANGED <<owned, ownedCount>>
             /\ UNCHANGED otherThanOwned
        ELSE RemoveTenant("delete_user", user_id)

\* db.delete(tenant); db.commit(): the foreign keys cascade.
DeleteTenantRow ==
    \E user_id \in TenantIds : RemoveTenant("db.delete", user_id)

DeleteNext ==
    \/ InsertStore
    \/ InsertOwned
    \/ DeleteUser
    \/ DeleteTenantRow

\* After create_tenant("k1") and create_tenant("k2") and some
\* generate_magic_link calls; no other row exists.
DeleteSpecInit ==
    /\ tenant_rows = {TenantRow(1, "k1"), TenantRow(2, "k2")}
    /\ tenantCount = 2
    /\ lastAuth = [op |-> "create_tenant", master_key |-> "k2",
                   auto_provision |-> FALSE, existing |-> {},
                   returned |-> TenantId(2), created |-> TRUE, error |-> NoError]
    /\ \E links \in GeneratedLinks :
          /\ magic_links = links
          /\ linkCount = Cardinality(links)
          /\ verified = [n \in 1..Cardinality(links) |-> 0]
    /\ loaded = [s \in DbSessions |-> 0]
    /\ lastVerify = NoVerify
    /\ StoreInit
    /\ RunInit(EmptyDict)
    /\ LimiterInit(DefaultSettings)
    /\ HttpInit(DefaultClientRetries)
    /\ SessionInit
    /\ CacheInit
    /\ OwnedInit
    /\ CredentialInit
    /\ SleepInit

\* Rows are inserted for two tenants, and tenants are deleted.
DeleteSpec == DeleteSpecInit /\ [][DeleteNext]_vars

\* A step that deletes a tenant leaves no row with its tenant_id in any
\* table and keeps every other row.
DeletionStep ==
    (lastDelete' # lastDelete /\ lastDelete'.returned) =>
        LET gone == lastDelete'.user_id IN
        /\ stores' = {r \in stores : r.tenant_id # gone}
        /\ owned' = {r \in owned : r.tenant_id # gone}
        /\ magic_links' = {r \in magic_links : r.tenant_id # gone}
        /\ tenant_rows' = {t \in tenant_rows : t.id # gone}

\* C30: the deletion of a tenant removes the tenant, its stores and its
\* audit, session, magic-link and key-metadata rows, and no row of another
\* tenant.
C30_DeleteCascade == [][DeletionStep]_vars

\* A tenant was deleted with at least two rows of its own, while a store
\* and another row of other tenants are in the tables.
C30_Witness ==
    /\ lastDelete.returned
    /\ lastDelete.removed >= 2
    /\ stores # {}
    /\ owned # {}
    /\ \A t \in TenantIds : t # lastDelete.user_id

\* ------------------------------------------------------------------------
\* The rate limiter under a wall clock
\* ------------------------------------------------------------------------

\* time.time() reads ClockStep seconds less than at the previous step: the
\* system clock was set back.
ClockSetBack ==
    /\ now >= ClockStep
    /\ now' = now - ClockStep
    /\ UNCHANGED <<settings, tenant_buckets, ip_buckets, lastCheck, ledger, burst, checks>>
    /\ UNCHANGED otherThanLimiter

\* The checks of LimiterSpec, with readings of time.time() that go forward
\* and back.
WallClockNext ==
    \/ checks < MaxChecks /\ CheckTenantLimit
    \/ checks < MaxChecks /\ RequireTenantLimit
    \/ checks < MaxChecks /\ CheckIpLimit
    \/ checks < MaxChecks /\ RequireIpLimit
    \/ Reset
    \/ Tick
    \/ ClockSetBack

WallClockSpec == LimiterSpecInit /\ [][WallClockNext]_vars

\* C31: every bucket holds at least 0 tokens and at most its capacity.
C31_TokensInRange ==
    /\ \A t \in DOMAIN tenant_buckets :
          /\ tenant_buckets[t].tokens >= 0
          /\ tenant_buckets[t].tokens <= Whole(tenant_buckets[t].capacity)
    /\ \A k \in DOMAIN ip_buckets :
          /\ ip_buckets[k].tokens >= 0
          /\ ip_buckets[k].tokens <= Whole(ip_buckets[k].capacity)

\* ------------------------------------------------------------------------
\* Repeating a rejected check after the reported wait
\* ------------------------------------------------------------------------

\* The wait a raised RateLimitError reports (retry_after_seconds), 0 if the
\* last check raised none.
ReportedWait ==
    IF lastCheck.error.retry_after_seconds = {} THEN 0
    ELSE CHOOSE r \in lastCheck.error.retry_after_seconds : TRUE

\* The bucket the last check consumed from, as a set with at most one
\* element.
CheckedBucket ==
    IF lastCheck.fn \in {"check_tenant_limit", "require_tenant_limit"}
    THEN {tenant_buckets[t] : t \in {lastCheck.key} \cap DOMAIN tenant_buckets}
    ELSE {ip_buckets[k] : k \in {<<lastCheck.key, lastCheck.kind>>} \cap DOMAIN ip_buckets}

\* The caller of a rejected require_tenant_limit or require_ip_limit sleeps
\* for the reported wait; consume set last_refill to the time of the
\* rejected check.
WaitRetryAfter ==
    /\ lastCheck.error.type = "RateLimitError"
    /\ \E b \in CheckedBucket : now < b.last_refill + ReportedWait
    /\ now' = now + ReportedWait
    /\ UNCHANGED <<settings, tenant_buckets, ip_buckets, lastCheck, ledger, burst, checks>>
    /\ UNCHANGED otherThanLimiter

RetryNext ==
    \/ checks < MaxChecks /\ CheckTenantLimit
    \/ checks < MaxChecks /\ RequireTenantLimit
    \/ checks < MaxChecks /\ CheckIpLimit
    \/ checks < MaxChecks /\ RequireIpLimit
    \/ Tick
    \/ WaitRetryAfter

RetrySpec == LimiterSpecInit /\ [][RetryNext]_vars

\* The last check raised RateLimitError, the reported wait has passed since
\* it, and this step makes the same check again, no check having been made
\* in between.
RepeatedAfterWait ==
    /\ lastCheck.error.type = "RateLimitError"
    /\ \E b \in CheckedBucket : now >= b.last_refill + ReportedWait
    /\ checks' = checks + 1
    /\ lastCheck'.fn = lastCheck.fn
    /\ lastCheck'.key = lastCheck.key
    /\ lastCheck'.kind = lastCheck.kind

RetryAdmitted == RepeatedAfterWait => lastCheck'.allowed

\* C32: a check rejected with a reported wait of r seconds and repeated r
\* seconds later or more, with no check of the bucket in between, is admitted.
C32_AdmittedAfterWait == [][RetryAdmitted]_vars

\* A write rejected by require_tenant_limit was repeated after the reported
\* wait, which the clock had not reached by ticks alone, and admitted.
C32_Witness ==
    /\ lastCheck.fn = "require_tenant_limit"
    /\ lastCheck.kind = "write"
    /\ lastCheck.allowed
    /\ checks >= 2
    /\ now > MaxTicks * ClockStep
    /\ \E t \in DOMAIN tenant_buckets : tenant_buckets[t].last_refill = now

\* ------------------------------------------------------------------------
\* Stored credentials: register_store and get_decrypted_credentials
\* ------------------------------------------------------------------------

otherThanStoreAndCredentials == <<mvars, lvars, hvars, xvars, kvars, tvars, gvars, dvars, bvars>>

otherThanSleep == <<mvars, svars, lvars, hvars, xvars, kvars, tvars, gvars, dvars, cvars>>

\* OrderDesk API keys passed to register_store.
ApiKeys == {"api-1", "api-2"}

\* The master key of a tenant (what the tenant authenticates with) and the
\* salt column of its row.
MasterSecret(t) == IF t = "tA" THEN "k1" ELSE "k2"

Salt(t) == IF t = "tA" THEN "salt-tA" ELSE "salt-tB"

\* Key material and salts, and the HKDF-SHA256 output for each pair: a
\* different key for every (key material, salt).
KeyMaterials == <<"k1", "k2", "api-1", "api-2">>

Salts == <<"salt-tA", "salt-tB">>

HkdfOutputs ==
    << <<"key-tA", "key-k1-tB">>,
       <<"key-k2-tA", "key-tB">>,
       <<"key-api-1-tA", "key-api-1-tB">>,
       <<"key-api-2-tA", "key-api-2-tB">> >>

IndexOf(seq, x) == CHOOSE i \in 1..Len(seq) : seq[i] = x

\* crypto.derive_tenant_key(master_key, salt)
derive_tenant_key(master_key, salt) ==
    HkdfOutputs[IndexOf(KeyMaterials, master_key)][IndexOf(Salts, salt)]

\* crypto.encrypt_api_key(api_key, tenant_key): the ciphertext, tag and
\* nonce, which only the key they were made with opens.
encrypt_api_key(api_key, tenant_key) ==
    [sealed_with |-> tenant_key, plaintext |-> api_key]

\* crypto.decrypt_api_key(ciphertext, tag, nonce, tenant_key): the plaintext,
\* or the exception of the tag verification (raised TRUE).
decrypt_api_key(sealed, tenant_key) ==
    IF sealed.sealed_with = tenant_key
    THEN [api_key |-> sealed.plaintext, raised |-> FALSE]
    ELSE [api_key |-> "", raised |-> TRUE]

\* The tenant_key register_store encrypts with: the one passed, or
\* derive_tenant_key(api_key, tenant.salt) when none is passed.
RegistrationKey(t, api_key, tenant_key) ==
    IF tenant_key = None THEN derive_tenant_key(api_key, Salt(t)) ELSE tenant_key

\* register_store(tenant_id, store_id, api_key, store_name, label,
\* tenant_key), credential columns included. The MCP tool passes the key of
\* the session (get_tenant_key()), the web UI passes none.
RegisterStoreWithKey ==
    \E t \in CallerIds, sid \in Idents, name \in Idents \cup {None},
       api_key \in ApiKeys, keyGiven \in BOOLEAN :
        LET store_name == IF name = None THEN sid ELSE name
            tenant_key == IF keyGiven
                          THEN derive_tenant_key(MasterSecret(t), Salt(t))
                          ELSE None
        IN
        /\ keyGiven => t \in Tenants
        /\ lastCall' = CallRegister(t, sid, store_name)
        /\ UNCHANGED <<pending, lastDecrypt>>
        /\ IF ~keyGiven /\ t \notin Tenants
           THEN /\ lastReturn' = Raised(NotFoundError, "")
                /\ UNCHANGED <<stores, rowCount, credentials>>
           ELSE IF ExistingByName(t, store_name) # {}
           THEN /\ lastReturn' = Raised(ValidationError, "store_name")
                /\ UNCHANGED <<stores, rowCount, credentials>>
           ELSE IF ExistingById(t, sid) # {}
           THEN /\ lastReturn' = Raised(ValidationError, "store_id")
                /\ UNCHANGED <<stores, rowCount, credentials>>
           ELSE /\ rowCount < MaxRows
                /\ rowCount' = rowCount + 1
                /\ stores' = stores \cup {StoreRow(rowCount', t, sid, store_name)}
                /\ credentials' = credentials @@
                      (rowCount' :> encrypt_api_key(api_key,
                                        RegistrationKey(t, api_key, tenant_key)))
                /\ lastReturn' = Returned(<<StoreRow(rowCount', t, sid, store_name)>>)
        /\ UNCHANGED otherThanStoreAndCredentials

\* get_decrypted_credentials(store, tenant_key) for a row of the table and
\* the key of an authenticated tenant.
GetDecryptedCredentials ==
    \E store \in stores, t \in Tenants :
        LET tenant_key == derive_tenant_key(MasterSecret(t), Salt(t))
            opened == decrypt_api_key(credentials[store.id], tenant_key)
        IN
        /\ lastDecrypt' =
              [row |-> store.id, tenant_id |-> store.tenant_id,
               tenant_key |-> tenant_key,
               store_id |-> IF opened.raised THEN "" ELSE store.store_id,
               api_key |-> opened.api_key, raised |-> opened.raised]
        /\ UNCHANGED credentials
        /\ UNCHANGED svars
        /\ UNCHANGED otherThanStoreAndCredentials

CredentialNext ==
    \/ RegisterStoreWithKey
    \/ GetDecryptedCredentials

CredentialSpec == StoreSpecInit /\ [][CredentialNext]_vars

\* C33: get_decrypted_credentials called on a registered store with the key
\* derived from its tenant's master secret and salt returns the store id
\* and the API key that were registered.
C33_RoundTrip ==
    /\ lastDecrypt.row \in DOMAIN credentials
    /\ lastDecrypt.tenant_key =
          derive_tenant_key(MasterSecret(lastDecrypt.tenant_id), Salt(lastDecrypt.tenant_id))
    => /\ ~lastDecrypt.raised
       /\ lastDecrypt.api_key = credentials[lastDecrypt.row].plaintext
       /\ \E r \in stores : r.id = lastDecrypt.row /\ r.store_id = lastDecrypt.store_id

\* ------------------------------------------------------------------------
\* The delays slept before retries
\* ------------------------------------------------------------------------

RECURSIVE Pow2(_)
Pow2(n) == IF n = 0 THEN 1 ELSE 2 * Pow2(n - 1)

\* base_delay, max_delay of _backoff and the factor of backoff_delay in
\* update_order_with_retry, in milliseconds.
base_delay == 1000

max_delay == 10000

ConflictBaseDelay == 500

\* The delay _backoff(a) sleeps when random.random() returns
\* k / JitterSteps: min(base_delay * 2**a, max_delay), plus the jitter
\* delay * 0.25 * (random * 2 - 1).
BackoffDelay(a, k) ==
    LET delay == Min(base_delay * Pow2(a), max_delay)
        jitter == (delay * (2 * k - JitterSteps)) \div (4 * JitterSteps)
    IN  delay + jitter

\* backoff_delay = 0.5 * (2**a) of update_order_with_retry at attempt a
ConflictBackoffDelay(a) == ConflictBaseDelay * Pow2(a)

\* await self._backoff(attempt): in one _request_with_retry the calls are
\* made with attempt 0, 1, ... up to max_retries (the except clauses call it
\* while attempt < max_retries, _handle_error_response at any attempt).
Backoff ==
    \E k \in 0..(JitterSteps - 1) :
        /\ Len(delays) <= client_max_retries
        /\ delays' = Append(delays, BackoffDelay(Len(delays), k))
        /\ UNCHANGED backoff_delays
        /\ UNCHANGED otherThanSleep

\* await self._backoff_fixed(backoff_delay) after a conflict, while
\* attempt < max_retries - 1, for the default max_retries.
BackoffFixed ==
    /\ Len(backoff_delays) < DefaultMaxRetries - 1
    /\ backoff_delays' = Append(backoff_delays, ConflictBackoffDelay(Len(backoff_delays)))
    /\ UNCHANGED delays
    /\ UNCHANGED otherThanSleep

\* The next call of _request_with_retry and of update_order_with_retry.
NextRequest ==
    /\ delays # <<>> \/ backoff_delays # <<>>
    /\ delays' = <<>>
    /\ backoff_delays' = <<>>
    /\ UNCHANGED otherThanSleep

SleepNext ==
    \/ Backoff
    \/ BackoffFixed
    \/ NextRequest

\* Clients constructed with max_retries 0 .. MaxBackoffRetries; orders
\* updated with the default max_retries.
SleepSpecInit ==
    /\ \E n \in 0..MaxBackoffRetries : HttpInit(n)
    /\ StoreInit
    /\ RunInit(EmptyDict)
    /\ LimiterInit(DefaultSettings)
    /\ SessionInit
    /\ CacheInit
    /\ TenantInit
    /\ MagicLinkInit
    /\ OwnedInit
    /\ CredentialInit
    /\ SleepInit

SleepSpec == SleepSpecInit /\ [][SleepNext]_vars

C35_LinearWait ==
    \A i, j \in 1..(Len(backoff_delays) - 1) :
        backoff_delays[i + 1] - backoff_delays[i] =
        backoff_delays[j + 1] - backoff_delays[j]

\* ------------------------------------------------------------------------
\* The result of orders.update after a successful upload
\* ------------------------------------------------------------------------

\* C36: when update_order_with_retry returned (the upload of the merged
\* order succeeded upstream), update_order_mcp returns status success.
C36_SuccessAfterUpload ==
    (viaTool /\ pc = "done" /\ uploads > 0 /\ toolResult # NoResult) =>
        toolResult.status = "success"

\* ------------------------------------------------------------------------
\* Friendly names that differ only in letter case
\* ------------------------------------------------------------------------

\* C37: for every tenant and identifier at most one store of the tenant
\* matches the identifier by friendly name, compared without regard to case.
C37_NameUnambiguous ==
    \A t \in Tenants, name \in Idents : Cardinality(GetStoreByNameRows(t, name)) <= 1

\* ------------------------------------------------------------------------
\* CacheManager.invalidate_store and invalidate_tenant
\* ------------------------------------------------------------------------

\* Tenant and store identifiers entries are written for, and endpoints.
CacheTenantIds == {"tA", "tB", "x-tA"}

CacheStoreIds == {"shop", "tA"}

CacheEndpoints == {"orders", CacheOrder}

\* f"{tenant_id}:{store_id}:" and f"{tenant_id}:", the patterns of
\* invalidate_store and invalidate_tenant.
StorePattern(tenant_id, store_id) == <<tenant_id, store_id, "">>

TenantPattern(tenant_id) == <<tenant_id, "">>

\* cache_manager.set(tenant_id, store_id, endpoint, value): the TTL is that
\* of "orders", the first part of both endpoints.
CacheSet ==
    \E t \in CacheTenantIds, s \in CacheStoreIds, endpoint \in CacheEndpoints :
        /\ cache' = BackendSet(cache, GenerateKey(t, s, endpoint),
                               [email |-> "v1"], OrdersTtl, now)
        /\ UNCHANGED lastGet
        /\ UNCHANGED otherThanCache

\* cache_manager.invalidate_store(tenant_id, store_id)
InvalidateStore(tenant_id, store_id) ==
    /\ cache' = BackendInvalidatePattern(cache, StorePattern(tenant_id, store_id))
    /\ UNCHANGED lastGet
    /\ UNCHANGED otherThanCache

\* cache_manager.invalidate_tenant(tenant_id)
InvalidateTenant(tenant_id) ==
    /\ cache' = BackendInvalidatePattern(cache, TenantPattern(tenant_id))
    /\ UNCHANGED lastGet
    /\ UNCHANGED otherThanCache

InvalidateNext ==
    \/ CacheSet
    \/ \E t \in CacheTenantIds, s \in CacheStoreIds : InvalidateStore(t, s)
    \/ \E t \in CacheTenantIds : InvalidateTenant(t)

InvalidateSpec == Init /\ [][InvalidateNext]_vars

\* The entries of the keys K are in the cache after the step as before it.
Kept(K) == \A key \in K : key \in DOMAIN cache' /\ cache'[key] = cache[key]

\* A step of invalidate_store(t, s) keeps the entries written for another
\* tenant or store, a step of invalidate_tenant(t) those of other tenants.
InvalidateFrame ==
    /\ \A t \in CacheTenantIds, s \in CacheStoreIds :
          InvalidateStore(t, s) =>
              Kept({key \in DOMAIN cache : key[1] # t \/ key[2] # s})
    /\ \A t \in CacheTenantIds :
          InvalidateTenant(t) => Kept({key \in DOMAIN cache : key[1] # t})

\* C38: invalidate_store(tenant, store) and invalidate_tenant(tenant) remove
\* only entries written for that tenant (and store); every other entry stays.
C38_InvalidateOnlyOwn == [][InvalidateFrame]_vars

====
